---- MODULE Spec2Model ----
(***************************************************************************)
(* Advisory consensus orchestration of medadvisors (src/app.py and         *)
(* src/advisors/services/meeting_fast.py).                                 *)
(*                                                                         *)
(* Texts are sequences of tokens (a token is an atomic piece of a Python   *)
(* string); "" is the empty sequence.  A model invocation (_chat) ends in  *)
(* one of three ways: it returns a text, it returns None (the provider     *)
(* gave a message without content), or it raises.                          *)
(***************************************************************************)
EXTENDS Integers, Sequences, FiniteSets, TLC

VARIABLES
    \* ---- one round of run_fast_completions (src/app.py) ----
    agenda,          \* the agenda text of the round
    contexts,        \* tuple of context blocks of the round
    lead_spec,       \* the lead's specification
    member_specs,    \* tuple of member specifications (the roster)
    num_rounds,      \* the num_rounds argument of the round
    futures,         \* the futures list: one record per submitted member call
    member_outputs,  \* the list member_outputs
    pc,              \* position of the thread running run_fast_completions
    chat_log,        \* every _chat invocation started so far, in start order
    lead_user,       \* the user message handed to the lead invocation
    lead_reply,      \* how the lead invocation ended
    summary,         \* what run_fast_completions returned
    overtaken,       \* history: some call finished before an earlier submitted one
    \* ---- the memoized meeting and the session directory (src/app.py) ----
    now,             \* the clock, in seconds
    cache,           \* entries of the st.cache_data memo of run_meeting_cached
    store,           \* files of advisor_meetings, caching enabled
    last_call,       \* history: the latest call of run_meeting_cached
    served,          \* history: requests the run handler has served, with their times
    store_live,      \* files of advisor_meetings of the same requests run uncached
    last_live,       \* history: the latest uncached run of the same requests
    variant,         \* the field in which the second request differs from the first
    \* ---- the rate limiter (_rate_limit_store, _rate_limit_ok) ----
    rl_store,        \* the defaultdict of deques: key -> timestamps, oldest first
    rl_calls,        \* history: every finished _rate_limit_ok call, in order
    adm_pc,          \* per thread: position inside _rate_limit_ok
    adm_id,          \* per thread: the user_id of the call in progress
    adm_now,         \* per thread: the local `now` of the call in progress
    \* ---- the run handler and its session names ----
    assigned,        \* history: every auto_save_name handed out, in order
    rnd_pc,          \* per script thread: position inside the run handler
    rnd_name,        \* per script thread: its auto_save_name
    rnd_doomed,      \* per script thread: stems its prune still has to delete
    rnd_seen,        \* per script thread: the paths its prune found to exist
    clobbered,       \* history: files pruned while their writer was not finished
    last_press,      \* history: what the latest press of Run found and showed
    last_input,      \* history: whether the latest press had valid input, and how
                     \* many presses in a row before it were refused for their input
    \* ---- the clarifying-question parser (generate_clarifying_questions) ----
    ex_content,      \* the model's reply, resp.choices[0].message.content
    ex_max,          \* max_questions
    ex_out,          \* what the function returned
    \* ---- session files read and pruned by name ----
    legacy,          \* files of the older directory medical_meetings
    last_prune,      \* history: the latest _prune_web_sessions call
    rendered,        \* history: the latest render_session_artifacts call
    \* ---- the round of advisors/services/meeting_fast.py ----
    seq_pc,          \* position of the thread running the sequential round
    seq_outputs,     \* its list member_outputs
    seq_lead_user,   \* the user message it hands to the lead invocation
    seq_summary,     \* what it returned
    \* ---- _rate_limit_ok called with a wide limit ----
    last_admit       \* history: the latest such call

roundVars == <<agenda, contexts, lead_spec, member_specs, num_rounds, futures,
               member_outputs, pc, chat_log, lead_user, lead_reply, summary,
               overtaken>>

cacheVars == <<now, cache, store, last_call, served, store_live, last_live, variant>>

rateVars == <<rl_store, rl_calls, adm_pc, adm_id, adm_now>>

handlerVars == <<assigned, rnd_pc, rnd_name, rnd_doomed, rnd_seen, clobbered>>

pressVars == <<last_press, last_input>>

extractVars == <<ex_content, ex_max, ex_out>>

fileVars == <<legacy, last_prune, rendered>>

seqVars == <<seq_pc, seq_outputs, seq_lead_user, seq_summary>>

windowVars == <<last_admit>>

toolVars == <<pressVars, extractVars, fileVars, seqVars, windowVars>>

vars == <<roundVars, cacheVars, rateVars, handlerVars, toolVars>>

\* what a round, a memo call, a limiter call and a handler run leave alone
besidesRound == <<cacheVars, rateVars, handlerVars, toolVars>>
besidesCache == <<roundVars, rateVars, handlerVars, toolVars>>
memoVars == <<cache, last_call, served, store_live, last_live, variant>>

----------------------------------------------------------------------------
\* Bounds of the model.
MaxMembers == 3

MaxTicks == 3
MaxRuns == 3

\* ticks of the limiter's clock, and finished limiter calls, in one behaviour
MaxRateTicks == 3
MaxAdmits == 5

\* handler runs in one behaviour
MaxRounds == 6

\* max_workers = min(8, len(member_specs) or 1)
PoolCap == 8

\* @st.cache_data(ttl=60 * 60 * 24)
TTL == 60 * 60 * 24

\* _prune_web_sessions(save_dir, max_sessions=5)
MaxSessions == 5

\* f"web_{max_idx + 1:05d}"
PadWidth == 5

----------------------------------------------------------------------------
\* Identities, threads and the idle values of the limiter and of the handler.

\* _rate_limit_ok(_user_id, window_s=60, max_calls=3)
WindowS == 60
MaxCalls == 3

\* deque(maxlen=100)
DequeMaxLen == 100

\* st.session_state.session_id of the browser sessions, user_tag being ""
Sessions == { "s1", "s2" }

\* _user_id = (user_tag.strip() or st.session_state.session_id) + ":run"
user_id(session, op) == <<session>> \o <<op>>

Identities == { user_id("s1", ":run"), user_id("s1", ":clarify"),
                user_id("s2", ":run") }

StoreKeyOfSession(id) == <<id[1]>>

\* q = store[user_id]: the deque is looked up under the whole identity
StoreKey(id) == id

RateKeys == { StoreKey(id) : id \in Identities }

\* script threads that may be inside _rate_limit_ok, or inside the run
\* handler, at the same time
Threads == { 1, 2 }

\* the limiter, untouched while something else is studied; a key never used
\* holds the empty deque that the defaultdict would create for it
RateIdle ==
    /\ rl_store = [k \in RateKeys |-> <<>>]
    /\ rl_calls = <<>>
    /\ adm_pc = [t \in Threads |-> "idle"]
    /\ adm_id = [t \in Threads |-> <<>>]
    /\ adm_now = [t \in Threads |-> 0]

\* the value of a history variable before the first call it records
NoCall == [seq |-> 0]

\* the sequential round, not started
SeqIdle ==
    /\ seq_pc = "idle"
    /\ seq_outputs = <<>>
    /\ seq_lead_user = <<>>
    /\ seq_summary = <<>>

\* the parser, the reader, the latest press and the sequential round,
\* untouched while something else is studied
ToolsIdle ==
    /\ SeqIdle
    /\ last_press = NoCall
    /\ last_input = NoCall
    /\ ex_content = <<>>
    /\ ex_max = 0
    /\ ex_out = NoCall
    /\ legacy = {}
    /\ last_prune = NoCall
    /\ rendered = NoCall
    /\ last_admit = NoCall

\* the run handler, untouched while something else is studied
HandlerIdle ==
    /\ assigned = <<>>
    /\ rnd_pc = [t \in Threads |-> "idle"]
    /\ rnd_name = [t \in Threads |-> <<>>]
    /\ rnd_doomed = [t \in Threads |-> <<>>]
    /\ rnd_seen = [t \in Threads |-> {}]
    /\ clobbered = {}

----------------------------------------------------------------------------
\* Texts.

WhitespaceTokens == {" ", "\n", "\n\n"}

RECURSIVE LStrip(_)
LStrip(t) ==
    IF t # <<>> /\ Head(t) \in WhitespaceTokens THEN LStrip(Tail(t)) ELSE t

RECURSIVE RStrip(_)
RStrip(t) ==
    IF t # <<>> /\ t[Len(t)] \in WhitespaceTokens
    THEN RStrip(SubSeq(t, 1, Len(t) - 1))
    ELSE t

\* str.strip()
Strip(t) == RStrip(LStrip(t))

\* sep.join(parts)
RECURSIVE Join(_, _)
Join(sep, parts) ==
    IF parts = <<>> THEN <<>>
    ELSE IF Len(parts) = 1 THEN parts[1]
    ELSE parts[1] \o sep \o Join(sep, Tail(parts))

ACTIONABILITY_RULE == "ACTIONABILITY_RULE"
ADVICE_RULE == "ADVICE_RULE"
NoSummary == <<"(No summary generated)">>

----------------------------------------------------------------------------
\* Outcomes of one model invocation.

Returned(t) == [kind |-> "text", text |-> t]
ReturnedNone == [kind |-> "none", text |-> <<>>]
Raised == [kind |-> "raise", text |-> <<>>]

\* Python truthiness of a returned value: None and "" are falsy.
Truthy(r) == r.kind = "text" /\ r.text # <<>>

\* The advice a member's invocation can produce: its reply names the advisor
\* of the system prompt it answers.
AdviceOf(system) == <<"advice of ", system[2]>>

MemberOutcomes(system) ==
    { Raised, ReturnedNone, Returned(<<>>), Returned(<<" ">>),
      Returned(AdviceOf(system)), Returned(<<" ">> \o AdviceOf(system) \o <<"\n">>) }

Consensus == <<"consensus">>

LeadOutcomes ==
    { Raised, ReturnedNone, Returned(<<>>), Returned(<<" ">>), Returned(Consensus) }

----------------------------------------------------------------------------
\* run_fast_completions: prompts.

context_block == IF contexts # <<>> THEN Join(<<"\n\n">>, contexts) ELSE <<>>

ContextPart ==
    IF context_block # <<>> THEN <<"Context:\n">> \o context_block \o <<"\n\n">>
    ELSE <<>>

member_prompt(m) ==
    [system |-> <<"You are ", m.title, ". Expertise: ", m.expertise,
                   ". Goal: ", m.goal, ". ", ADVICE_RULE, " ", ACTIONABILITY_RULE>>,
     user   |-> <<"Agenda:\n">> \o agenda \o <<"\n\n">> \o ContextPart
                \o <<"Provide your actionable advice now. Be concise.">>]

lead_system ==
    <<"You are ", lead_spec.title, ". Expertise: ", lead_spec.expertise,
      ". Goal: ", lead_spec.goal, ". ", ACTIONABILITY_RULE>>

\* f"[member {i+1}]\n{out}" for the 1-based position i of member_outputs
MemberTag(i, out) == <<"[member ", ToString(i), "]\n">> \o out

RECURSIVE TaggedFromNoStrip(_, _)
TaggedFromNoStrip(outs, i) ==
    IF i > Len(outs) THEN <<>>
    ELSE IF outs[i] # <<>>
         THEN <<MemberTag(i, outs[i])>> \o TaggedFromNoStrip(outs, i + 1)
         ELSE TaggedFromNoStrip(outs, i + 1)

TaggedAmongSurvivors(outs, i) ==
    LET NotBlank(out) == Strip(out) # <<>>
        kept == SelectSeq(outs, NotBlank)
    IN [k \in 1..Len(kept) |-> MemberTag(k, kept[k])]

\* f"[member {i+1}]\n{out}" for i, out in enumerate(member_outputs) if out.strip()
RECURSIVE TaggedFrom(_, _)
TaggedFrom(outs, i) ==
    IF i > Len(outs) THEN <<>>
    ELSE IF Strip(outs[i]) # <<>>
         THEN <<MemberTag(i, outs[i])>> \o TaggedFrom(outs, i + 1)
         ELSE TaggedFrom(outs, i + 1)

members_block(outs) == Join(<<"\n\n">>, TaggedFrom(outs, 1))

MembersPartAlways(outs) ==
    <<"Team member advice:\n">> \o members_block(outs) \o <<"\n\n">>

MembersPart(outs) ==
    IF members_block(outs) # <<>>
    THEN <<"Team member advice:\n">> \o members_block(outs) \o <<"\n\n">>
    ELSE <<>>

LeadUser(outs) ==
    <<"Agenda:\n">> \o agenda \o <<"\n\n">> \o ContextPart \o MembersPart(outs)
    \o <<"Produce the final consensus in markdown.">>

----------------------------------------------------------------------------
\* run_fast_completions: the thread pool and the collecting thread.

MaxWorkersUncapped ==
    IF Len(member_specs) = 0 THEN 1 ELSE Len(member_specs)

\* max_workers=min(8, len(member_specs) or 1)
MaxWorkers ==
    IF Len(member_specs) # 0 /\ Len(member_specs) < PoolCap THEN Len(member_specs)
    ELSE IF Len(member_specs) = 0 THEN 1
    ELSE PoolCap

Running == { i \in 1..Len(futures) : futures[i].state = "running" }
PendingOrRaised ==
    { i \in 1..Len(futures) :
        futures[i].state = "pending"
        \/ (futures[i].state = "done" /\ futures[i].outcome.kind = "raise") }

Pending == { i \in 1..Len(futures) : futures[i].state = "pending" }

\* fut.result() returns (or raises) only once the future has finished.
SettledNoWait(i) == futures[i].state # "pending"
Settled(i) == futures[i].state = "done"

\* `for fut in futures`: the j-th collected entry comes from the j-th future.
FutureForPop(j) == Len(futures) + 1 - j
FutureFor(j) == j

\* fut.result() or "" ; an exception gives ""
CollectedOutput(f) ==
    IF f.state = "done" /\ Truthy(f.outcome) THEN f.outcome.text ELSE <<>>

\* summary_md or "(No summary generated)"
SummaryTruthyStripped(r) == IF Truthy(r) /\ Strip(r.text) # <<>> THEN r.text ELSE NoSummary
SummaryOf(r) == IF Truthy(r) THEN r.text ELSE NoSummary

MemberSpec(i) ==
    [title |-> "advisor" \o ToString(i), expertise |-> "expertise" \o ToString(i),
     goal |-> "goal" \o ToString(i), role |-> "role" \o ToString(i)]

LeadSpec == [title |-> "lead", expertise |-> "synthesis", goal |-> "consensus"]

ContextChoices == { <<>>, << <<"clarifications">> >>,
                    << <<"clarifications">>, <<"web highlights">> >> }

\* num_rounds=int(num_rounds): the shipped 1, and a larger count
NumRoundsChoices == {1, 3}

\* the memo and the session directory, untouched while one round is studied
CacheIdle ==
    /\ now = 0
    /\ cache = {}
    /\ store = {}
    /\ last_call = NoCall
    /\ served = {}
    /\ store_live = {}
    /\ last_live = NoCall
    /\ variant = <<"none">>

InitRound ==
    /\ CacheIdle
    /\ RateIdle
    /\ HandlerIdle
    /\ ToolsIdle
    /\ agenda = <<"case">>
    /\ contexts \in ContextChoices
    /\ lead_spec = LeadSpec
    /\ \E n \in 0..MaxMembers : member_specs = [i \in 1..n |-> MemberSpec(i)]
    /\ num_rounds \in NumRoundsChoices
    /\ futures = <<>>
    /\ member_outputs = <<>>
    /\ pc = "submit"
    /\ chat_log = <<>>
    /\ lead_user = <<>>
    /\ lead_reply = ReturnedNone
    /\ summary = <<>>
    /\ overtaken = FALSE

\* futures.append(pool.submit(_chat, model_name, sys, usr))
Submit ==
    /\ pc = "submit"
    /\ Len(futures) < Len(member_specs)
    /\ LET p == member_prompt(member_specs[Len(futures) + 1])
       IN futures' = Append(futures,
              [state |-> "pending", system |-> p.system, user |-> p.user,
               outcome |-> ReturnedNone])
    /\ UNCHANGED besidesRound
    /\ UNCHANGED <<num_rounds, agenda, contexts, lead_spec, member_specs, member_outputs, pc,
                   chat_log, lead_user, lead_reply, summary, overtaken>>

\* the submitting loop is over
SubmitDone ==
    /\ pc = "submit"
    /\ Len(futures) = Len(member_specs)
    /\ pc' = "collect"
    /\ UNCHANGED besidesRound
    /\ UNCHANGED <<num_rounds, agenda, contexts, lead_spec, member_specs, futures,
                   member_outputs, chat_log, lead_user, lead_reply, summary,
                   overtaken>>

\* a pool worker takes the oldest queued call and starts _chat
WorkerStart ==
    /\ Pending # {}
    /\ Cardinality(Running) < MaxWorkers
    /\ LET i == CHOOSE k \in Pending : \A l \in Pending : k <= l
       IN /\ futures' = [futures EXCEPT ![i].state = "running"]
          /\ chat_log' = Append(chat_log,
                 [system |-> futures[i].system, user |-> futures[i].user])
    /\ UNCHANGED besidesRound
    /\ UNCHANGED <<num_rounds, agenda, contexts, lead_spec, member_specs, member_outputs, pc,
                   lead_user, lead_reply, summary, overtaken>>

\* a running _chat returns or raises
WorkerFinish ==
    /\ \E i \in Running :
         \E o \in MemberOutcomes(futures[i].system) :
            /\ futures' = [futures EXCEPT ![i].state = "done", ![i].outcome = o]
            /\ overtaken' = (overtaken \/ \E k \in 1..(i - 1) : futures[k].state # "done")
    /\ UNCHANGED besidesRound
    /\ UNCHANGED <<num_rounds, agenda, contexts, lead_spec, member_specs, member_outputs, pc,
                   chat_log, lead_user, lead_reply, summary>>

\* member_outputs.append(fut.result() or ""), "" when it raised
Collect ==
    /\ pc = "collect"
    /\ Len(member_outputs) < Len(futures)
    /\ LET i == FutureFor(Len(member_outputs) + 1)
       IN /\ Settled(i)
          /\ member_outputs' = Append(member_outputs, CollectedOutput(futures[i]))
    /\ UNCHANGED besidesRound
    /\ UNCHANGED <<num_rounds, agenda, contexts, lead_spec, member_specs, futures, pc,
                   chat_log, lead_user, lead_reply, summary, overtaken>>

\* leaving the `with` block waits for every worker, then the lead call starts
LeadStart ==
    /\ pc = "collect"
    /\ Len(member_outputs) = Len(futures)
    /\ \A i \in 1..Len(futures) : Settled(i)
    /\ lead_user' = LeadUser(member_outputs)
    /\ chat_log' = Append(chat_log,
           [system |-> lead_system, user |-> LeadUser(member_outputs)])
    /\ pc' = "lead"
    /\ UNCHANGED besidesRound
    /\ UNCHANGED <<num_rounds, agenda, contexts, lead_spec, member_specs, futures,
                   member_outputs, lead_reply, summary, overtaken>>

\* the lead's _chat returns or raises; nothing catches what it raises
LeadFinish ==
    /\ pc = "lead"
    /\ \E o \in LeadOutcomes :
         /\ lead_reply' = o
         /\ IF o.kind = "raise"
            THEN pc' = "raised" /\ summary' = summary
            ELSE pc' = "returned" /\ summary' = SummaryOf(o)
    /\ UNCHANGED besidesRound
    /\ UNCHANGED <<num_rounds, agenda, contexts, lead_spec, member_specs, futures,
                   member_outputs, chat_log, lead_user, overtaken>>

NextRound ==
    \/ Submit
    \/ SubmitDone
    \/ WorkerStart
    \/ WorkerFinish
    \/ Collect
    \/ LeadStart
    \/ LeadFinish

SpecRound == InitRound /\ [][NextRound]_vars

\* The thread running run_fast_completions keeps running, the pool's workers
\* take queued calls as long as one of them is free, and every _chat that
\* has started ends, by returning or by raising.
FairRound ==
    /\ WF_vars(Submit)
    /\ WF_vars(SubmitDone)
    /\ WF_vars(WorkerStart)
    /\ WF_vars(WorkerFinish)
    /\ WF_vars(Collect)
    /\ WF_vars(LeadStart)
    /\ WF_vars(LeadFinish)

SpecRoundFair == InitRound /\ [][NextRound]_vars /\ FairRound

\* ---- the pool under a roster larger than its cap ----
\* Rosters of up to MaxRoster members, each member's _chat returning its
\* advice: the outcomes of the calls are studied in SpecRound, their number
\* in flight here.

MaxRoster == 9

InitPool ==
    /\ CacheIdle
    /\ RateIdle
    /\ HandlerIdle
    /\ ToolsIdle
    /\ agenda = <<"case">>
    /\ contexts = <<>>
    /\ lead_spec = LeadSpec
    /\ \E n \in 1..MaxRoster : member_specs = [i \in 1..n |-> MemberSpec(i)]
    /\ num_rounds = 1
    /\ futures = <<>>
    /\ member_outputs = <<>>
    /\ pc = "submit"
    /\ chat_log = <<>>
    /\ lead_user = <<>>
    /\ lead_reply = ReturnedNone
    /\ summary = <<>>
    /\ overtaken = FALSE

\* a running _chat returns its advice
WorkerReturns ==
    /\ \E i \in Running :
         /\ futures' = [futures EXCEPT ![i].state = "done",
                                       ![i].outcome = Returned(AdviceOf(futures[i].system))]
         /\ overtaken' = (overtaken \/ \E k \in 1..(i - 1) : futures[k].state # "done")
    /\ UNCHANGED besidesRound
    /\ UNCHANGED <<num_rounds, agenda, contexts, lead_spec, member_specs, member_outputs, pc,
                   chat_log, lead_user, lead_reply, summary>>

\* the lead's _chat returns the consensus
LeadReturns ==
    /\ pc = "lead"
    /\ lead_reply' = Returned(Consensus)
    /\ pc' = "returned"
    /\ summary' = SummaryOf(Returned(Consensus))
    /\ UNCHANGED besidesRound
    /\ UNCHANGED <<num_rounds, agenda, contexts, lead_spec, member_specs, futures,
                   member_outputs, chat_log, lead_user, overtaken>>

NextPool ==
    \/ Submit
    \/ SubmitDone
    \/ WorkerStart
    \/ WorkerReturns
    \/ Collect
    \/ LeadStart
    \/ LeadReturns

SpecPool == InitPool /\ [][NextPool]_vars

\* ---- the sequential round of advisors/services/meeting_fast.py ----
\* It is run next to the pooled round, on the same roster, agenda and
\* contexts, and member j's _chat ends in it as it ended in the pooled round:
\* the sequential round calls member j once the pooled call of j has ended.
\* member_prompt, lead_system and members_block are the same text in the two
\* files.

SeqOutputStripped(o) == IF Truthy(o) THEN Strip(o.text) ELSE <<>>

\* _chat(model_name, sys, usr) or "" ; an exception gives ""
SeqOutput(o) == IF Truthy(o) THEN o.text ELSE <<>>

\* lead_user of meeting_fast.py
SeqLeadUser(outs) ==
    <<"Agenda:\n">> \o agenda \o <<"\n\n">> \o ContextPart \o MembersPart(outs)
    \o <<"Think step by step.Produce the final consensus in markdown.">>

InitBoth ==
    /\ CacheIdle
    /\ RateIdle
    /\ HandlerIdle
    /\ agenda = <<"case">>
    /\ contexts = << <<"clarifications">> >>
    /\ lead_spec = LeadSpec
    /\ \E n \in 0..MaxMembers : member_specs = [i \in 1..n |-> MemberSpec(i)]
    /\ num_rounds = 1
    /\ futures = <<>>
    /\ member_outputs = <<>>
    /\ pc = "submit"
    /\ chat_log = <<>>
    /\ lead_user = <<>>
    /\ lead_reply = ReturnedNone
    /\ summary = <<>>
    /\ overtaken = FALSE
    /\ seq_pc = "members"
    /\ seq_outputs = <<>>
    /\ seq_lead_user = <<>>
    /\ seq_summary = <<>>
    /\ last_press = NoCall
    /\ last_input = NoCall
    /\ ex_content = <<>>
    /\ ex_max = 0
    /\ ex_out = NoCall
    /\ legacy = {}
    /\ last_prune = NoCall
    /\ rendered = NoCall
    /\ last_admit = NoCall

\* for m in member_specs: member_outputs.append(_chat(...) or ""), "" when it
\* raised
SeqChat ==
    /\ seq_pc = "members"
    /\ Len(seq_outputs) < Len(member_specs)
    /\ LET j == Len(seq_outputs) + 1
       IN /\ j <= Len(futures)
          /\ futures[j].state = "done"
          /\ seq_outputs' = Append(seq_outputs, SeqOutput(futures[j].outcome))
    /\ UNCHANGED <<seq_pc, seq_lead_user, seq_summary>>
    /\ UNCHANGED <<roundVars, cacheVars, rateVars, handlerVars>>
    /\ UNCHANGED <<pressVars, extractVars, fileVars, windowVars>>

\* the loop is over: the lead call starts
SeqLeadStart ==
    /\ seq_pc = "members"
    /\ Len(seq_outputs) = Len(member_specs)
    /\ seq_lead_user' = SeqLeadUser(seq_outputs)
    /\ seq_pc' = "lead"
    /\ UNCHANGED <<seq_outputs, seq_summary>>
    /\ UNCHANGED <<roundVars, cacheVars, rateVars, handlerVars>>
    /\ UNCHANGED <<pressVars, extractVars, fileVars, windowVars>>

\* summary_md = _chat(model_name, lead_system, lead_user);
\* return summary_md or "(No summary generated)"
SeqLeadFinish ==
    /\ seq_pc = "lead"
    /\ \E o \in LeadOutcomes :
         IF o.kind = "raise"
         THEN seq_pc' = "raised" /\ seq_summary' = seq_summary
         ELSE seq_pc' = "returned" /\ seq_summary' = SummaryOf(o)
    /\ UNCHANGED <<seq_outputs, seq_lead_user>>
    /\ UNCHANGED <<roundVars, cacheVars, rateVars, handlerVars>>
    /\ UNCHANGED <<pressVars, extractVars, fileVars, windowVars>>

NextBoth ==
    \/ NextRound
    \/ SeqChat
    \/ SeqLeadStart
    \/ SeqLeadFinish

SpecBoth == InitBoth /\ [][NextBoth]_vars

----------------------------------------------------------------------------
\* Session files of advisor_meetings.  A stem is a sequence of characters
\* after the token "web_"; a file is a stem, an extension, a last-modified
\* time and its content.

DigitChars == { ToString(d) : d \in 0..9 }
DigitVal(c) == CHOOSE d \in 0..9 : ToString(d) = c

\* str(n) for n >= 0
RECURSIVE Decimal(_)
Decimal(n) ==
    IF n < 10 THEN <<ToString(n)>> ELSE Decimal(n \div 10) \o <<ToString(n % 10)>>

\* f"{n:05d}"
RECURSIVE ZeroPad(_, _)
ZeroPad(ds, width) == IF Len(ds) >= width THEN ds ELSE ZeroPad(<<"0">> \o ds, width)

\* int(digits)
RECURSIVE ParseInt(_)
ParseInt(ds) ==
    IF ds = <<>> THEN 0
    ELSE 10 * ParseInt(SubSeq(ds, 1, Len(ds) - 1)) + DigitVal(ds[Len(ds)])

\* f"web_{n:05d}"
WebName(n) == <<"web_">> \o ZeroPad(Decimal(n), PadWidth)

BasenamesOfMarkdown(st) ==
    { f.stem : f \in { g \in st : Head(g.stem) = "web_" /\ g.ext = ".md" } }

\* save_dir.glob("web_*.md") + save_dir.glob("web_*.json"), stems as a set
_get_web_session_basenames(st) ==
    { f.stem : f \in { g \in st : Head(g.stem) = "web_" /\ g.ext \in {".md", ".json"} } }

\* re.match(r"web_(\d+)$", stem)
MatchesWebIndex(stem) ==
    /\ Head(stem) = "web_"
    /\ Len(stem) >= 2
    /\ \A k \in 2..Len(stem) : stem[k] \in DigitChars

WebIndexes(st) ==
    { ParseInt(Tail(stem)) : stem \in { x \in _get_web_session_basenames(st) : MatchesWebIndex(x) } }

SetMax(S) == IF S = {} THEN 0 ELSE CHOOSE m \in S : \A x \in S : x <= m

_make_next_web_session_name(st) == WebName(SetMax(WebIndexes(st)) + 1)

MtimeOfOlderArtifact(st, stem) ==
    LET times == { f.mtime : f \in { g \in st : g.stem = stem /\ g.ext \in {".md", ".json"} } }
    IN IF times = {} THEN 0 ELSE CHOOSE m \in times : \A x \in times : m <= x

\* mtime_for(stem): the later of the two artifacts' times, 0.0 when none exists
mtime_for(st, stem) ==
    LET times == { f.mtime : f \in { g \in st : g.stem = stem /\ g.ext \in {".md", ".json"} } }
    IN IF times = {} THEN 0 ELSE CHOOSE m \in times : \A x \in times : x <= m

\* order of sorted(names): character by character
CharRank(c) == IF c \in DigitChars THEN DigitVal(c) ELSE 10

RECURSIVE StemBefore(_, _)
StemBefore(a, b) ==
    IF a = <<>> THEN b # <<>>
    ELSE IF b = <<>> THEN FALSE
    ELSE IF Head(a) = Head(b) THEN StemBefore(Tail(a), Tail(b))
    ELSE IF Head(a) = "web_" \/ Head(b) = "web_" THEN Head(b) = "web_" /\ Head(a) # "web_"
    ELSE CharRank(Head(a)) < CharRank(Head(b))

\* position of a stem in sorted(stems, key=mtime_for, reverse=True): the sort is
\* stable, so stems of equal time keep the order of sorted(names)
RanksBefore(st, a, b) ==
    \/ mtime_for(st, a) > mtime_for(st, b)
    \/ mtime_for(st, a) = mtime_for(st, b) /\ StemBefore(a, b)

ToDeleteBeyondOneMore(st, max_sessions) ==
    LET stems == _get_web_session_basenames(st)
    IN IF Cardinality(stems) <= max_sessions + 1 THEN {}
       ELSE { x \in stems :
                Cardinality({ y \in stems : RanksBefore(st, y, x) }) >= max_sessions + 1 }

\* stems_sorted[max_sessions:]
to_delete(st, max_sessions) ==
    LET stems == _get_web_session_basenames(st)
    IN IF Cardinality(stems) <= max_sessions THEN {}
       ELSE { x \in stems :
                Cardinality({ y \in stems : RanksBefore(st, y, x) }) >= max_sessions }

PruneWhateverExtension(st, max_sessions) ==
    { f \in st : f.stem \notin to_delete(st, max_sessions) }

\* for stem in to_delete: for ext in (".md", ".json"): path.unlink()
_prune_web_sessions(st, max_sessions) ==
    { f \in st : ~(f.stem \in to_delete(st, max_sessions) /\ f.ext \in {".md", ".json"}) }

----------------------------------------------------------------------------
\* run_meeting_cached and the team-meeting branches of the run handler.

\* to_assistants_model: gpt-5* selections run on gpt-4.1-nano
to_assistants_model(name) ==
    IF name # <<>> /\ Head(name) = "gpt-5" THEN <<"gpt-4.1-nano">> ELSE name

MapAgent(a) == [a EXCEPT !.model = to_assistants_model(a.model)]

\* what run_meeting is given, save_name apart
MeetingInput(a) ==
    [agenda |-> a.agenda, agenda_questions |-> a.agenda_questions,
     agenda_rules |-> a.agenda_rules, contexts |-> a.contexts,
     num_rounds |-> a.num_rounds, pubmed_search |-> a.pubmed_search,
     team_lead |-> MapAgent(a.team_lead_data),
     team_members |-> [i \in 1..Len(a.team_members_data) |-> MapAgent(a.team_members_data[i])]]

\* run_meeting (virtual_lab) with a deterministic model: the summary it returns
\* and the transcript it saves are determined by what it is given
SummaryFor(a) == [summary_of |-> MeetingInput(a)]

\* run_meeting saves <save_name>.md and <save_name>.json in save_dir
SaveMeeting(st, a, t) ==
    { f \in st : f.stem # a.save_name }
    \cup { [stem |-> a.save_name, ext |-> e, mtime |-> t, content |-> MeetingInput(a)]
           : e \in {".md", ".json"} }

\* the arguments st.cache_data hashes: every parameter of run_meeting_cached
CacheKeyNoContexts(a) ==
    <<a.agenda, a.agenda_questions, a.agenda_rules, a.num_rounds,
      a.pubmed_search, a.team_lead_data, a.team_members_data, a.save_name>>

CacheKeyNoName(a) ==
    <<a.agenda, a.agenda_questions, a.agenda_rules, a.contexts, a.num_rounds,
      a.pubmed_search, a.team_lead_data, a.team_members_data>>

CacheKey(a) ==
    <<a.agenda, a.agenda_questions, a.agenda_rules, a.contexts, a.num_rounds,
      a.pubmed_search, a.team_lead_data, a.team_members_data, a.save_name>>

\* ttl: an entry is valid for TTL seconds after it was stored
FreshForever(e, t) == TRUE
Fresh(e, t) == t - e.at < TTL

\* run_meeting_cached(a) at time t on memo c and directory st
run_meeting_cached(c, st, a, t) ==
    LET valid == { e \in c : Fresh(e, t) }
        hits  == { e \in valid : e.key = CacheKey(a) }
        prior == { e \in c : e.key = CacheKey(a) }
        age   == IF prior = {} THEN -1 ELSE t - (CHOOSE e \in prior : TRUE).at
    IN IF hits # {}
       THEN [hit |-> TRUE, value |-> (CHOOSE e \in hits : TRUE).value,
             cache |-> valid, store |-> st, prior_age |-> age]
       ELSE [hit |-> FALSE, value |-> SummaryFor(a),
             cache |-> { e \in valid : e.key # CacheKey(a) }
                       \cup { [key |-> CacheKey(a), value |-> SummaryFor(a), at |-> t,
                               args |-> a] },
             store |-> SaveMeeting(st, a, t), prior_age |-> age]

\* ---- requests ----
Agent(t, m) ==
    [title |-> <<t>>, expertise |-> <<"expertise">>, goal |-> <<"goal">>,
     role |-> <<"role">>, model |-> m]

BaseRequest ==
    [agenda |-> <<"case">>, agenda_questions |-> << <<"question">> >>,
     agenda_rules |-> << <<"rule">> >>, contexts |-> << <<"clarifications">> >>,
     num_rounds |-> 1, pubmed_search |-> FALSE,
     team_lead_data |-> Agent("lead", <<"gpt-5", "-nano">>),
     team_members_data |-> << Agent("advisor", <<"gpt-5", "-nano">>) >>]

AgentFields == {"title", "expertise", "goal", "role", "model"}

VaryAgent(a, f) ==
    IF f = "model" THEN [a EXCEPT !.model = <<"gpt-5", "-mini">>]
    ELSE [a EXCEPT ![f] = a[f] \o <<"'">>]

Variants ==
    { <<f>> : f \in {"agenda", "agenda_questions", "agenda_rules", "contexts",
                     "num_rounds"} }
    \cup { <<"lead", f>> : f \in AgentFields }
    \cup { <<"member", f>> : f \in AgentFields }

\* the base request changed in the one field v
Vary(r, v) ==
    IF v = <<"agenda">> THEN [r EXCEPT !.agenda = <<"other case">>]
    ELSE IF v = <<"agenda_questions">>
         THEN [r EXCEPT !.agenda_questions = << <<"question">>, <<"question 2">> >>]
    ELSE IF v = <<"agenda_rules">> THEN [r EXCEPT !.agenda_rules = << <<"rule 2">> >>]
    ELSE IF v = <<"contexts">>
         THEN [r EXCEPT !.contexts = << <<"clarifications">>, <<"web highlights">> >>]
    ELSE IF v = <<"num_rounds">> THEN [r EXCEPT !.num_rounds = 2]
    ELSE IF v[1] = "lead"
         THEN [r EXCEPT !.team_lead_data = VaryAgent(r.team_lead_data, v[2])]
    ELSE [r EXCEPT !.team_members_data = << VaryAgent(r.team_members_data[1], v[2]) >>]

Requests == { BaseRequest, Vary(BaseRequest, variant) }

WithName(r, name) ==
    [agenda |-> r.agenda, agenda_questions |-> r.agenda_questions,
     agenda_rules |-> r.agenda_rules, contexts |-> r.contexts,
     num_rounds |-> r.num_rounds, pubmed_search |-> r.pubmed_search,
     team_lead_data |-> r.team_lead_data, team_members_data |-> r.team_members_data,
     save_name |-> name]

\* the round variables, untouched while the memo is studied
RoundIdle ==
    /\ num_rounds = 1
    /\ agenda = <<>>
    /\ contexts = <<>>
    /\ lead_spec = LeadSpec
    /\ member_specs = <<>>
    /\ futures = <<>>
    /\ member_outputs = <<>>
    /\ pc = "idle"
    /\ chat_log = <<>>
    /\ lead_user = <<>>
    /\ lead_reply = ReturnedNone
    /\ summary = <<>>
    /\ overtaken = FALSE

\* time passes, half a day at a time; the clock is bounded by MaxTicks half
\* days and the second each handler run takes
Tick ==
    /\ now + (TTL \div 2) <= MaxTicks * (TTL \div 2) + MaxRuns
    /\ now' = now + (TTL \div 2)
    /\ UNCHANGED <<cache, store, last_call, served, store_live, last_live, variant>>
    /\ UNCHANGED besidesCache

\* ---- run_meeting_cached called with a given save_name ----
InitMemo ==
    /\ RoundIdle
    /\ RateIdle
    /\ HandlerIdle
    /\ ToolsIdle
    /\ now = 0
    /\ cache = {}
    /\ store = {}
    /\ last_call = NoCall
    /\ served = {}
    /\ store_live = {}
    /\ last_live = NoCall
    /\ variant \in Variants

NamesUnderTest == { WebName(1), WebName(2) }

CallCached ==
    /\ \E r \in Requests, name \in NamesUnderTest :
         LET a == WithName(r, name)
             res == run_meeting_cached(cache, store, a, now)
         IN /\ cache' = res.cache
            /\ store' = res.store
            /\ last_call' = [seq |-> 1, args |-> a, at |-> now, hit |-> res.hit,
                             value |-> res.value, prior_age |-> res.prior_age]
    /\ UNCHANGED <<now, served, store_live, last_live, variant>>
    /\ UNCHANGED besidesCache

NextMemo ==
    \/ CallCached
    \/ Tick

SpecMemo == InitMemo /\ [][NextMemo]_vars

\* ---- the run handler's team-meeting branches (fast_path off) ----
\* sessions web_00003 .. left in the directory by earlier rounds
EarlierSessions ==
    { [stem |-> WebName(n), ext |-> e, mtime |-> n - (MaxSessions + 3),
       content |-> MeetingInput(BaseRequest)]
      : n \in 3..(MaxSessions + 2), e \in {".md", ".json"} }

\* the second request of the handler runs differs in a context block or in a
\* member's model
HandlerVariants == { <<"contexts">>, <<"member", "model">> }

InitCache ==
    /\ RoundIdle
    /\ RateIdle
    /\ HandlerIdle
    /\ ToolsIdle
    /\ now = 0
    /\ cache = {}
    /\ store \in { {}, EarlierSessions }
    /\ store_live = store
    /\ last_call = NoCall
    /\ served = {}
    /\ last_live = NoCall
    /\ variant \in HandlerVariants

\* One run request served twice over: with cache_outputs on (memo `cache`,
\* directory `store`) and with cache_outputs off (directory `store_live`).
\* Each names the session, holds the meeting and prunes the directory.
RunTeamMeeting ==
    /\ Cardinality(served) < MaxRuns
    /\ \E r \in Requests :
         LET t == now + 1
             n == Cardinality(served) + 1
             auto_save_name == _make_next_web_session_name(store)
             a == WithName(r, auto_save_name)
             res == run_meeting_cached(cache, store, a, t)
             live_name == _make_next_web_session_name(store_live)
             b == WithName(r, live_name)
         IN /\ now' = t
            /\ cache' = res.cache
            /\ store' = _prune_web_sessions(res.store, MaxSessions)
            /\ last_call' = [seq |-> n, args |-> a, at |-> t, hit |-> res.hit,
                             value |-> res.value, prior_age |-> res.prior_age]
            /\ served' = served \cup { [n |-> n, req |-> r, at |-> t] }
            /\ store_live' = _prune_web_sessions(SaveMeeting(store_live, b, t), MaxSessions)
            /\ last_live' = [seq |-> n, name |-> live_name, value |-> SummaryFor(b)]
    /\ UNCHANGED variant
    /\ UNCHANGED besidesCache

NextCache ==
    \/ RunTeamMeeting
    \/ Tick

SpecCache == InitCache /\ [][NextCache]_vars

----------------------------------------------------------------------------
\* The rate limiter: _rate_limit_ok(user_id, window_s, max_calls).

RECURSIVE DropExpiredOlderOnly(_, _, _)
DropExpiredOlderOnly(q, t, window_s) ==
    IF q # <<>> /\ t - Head(q) > window_s
    THEN DropExpiredOlderOnly(Tail(q), t, window_s)
    ELSE q

\* while q and now - q[0] >= window_s: q.popleft()
RECURSIVE DropExpired(_, _, _)
DropExpired(q, t, window_s) ==
    IF q # <<>> /\ t - Head(q) >= window_s
    THEN DropExpired(Tail(q), t, window_s)
    ELSE q

AtLimitOffByOne(q, max_calls) == Len(q) > max_calls

\* if len(q) >= max_calls
AtLimit(q, max_calls) == Len(q) >= max_calls

AppendLeft(q, x) == <<x>> \o q

DequeAppendUnbounded(q, x) == Append(q, x)

\* q.append(now) on a deque(maxlen=100): a full deque loses its oldest entry
DequeAppend(q, x) ==
    IF Len(q) >= DequeMaxLen THEN Append(Tail(q), x) ELSE Append(q, x)

RejectedAppends(q, t) == Append(q, t)

\* return False: the deque stays as the loop left it
Rejected(q, t) == q

\* one whole call on the deque q at time t: the answer, the deque as the loop
\* left it and the deque as the call leaves it
_rate_limit_ok(q, t, window_s, max_calls) ==
    LET p == DropExpired(q, t, window_s)
    IN IF AtLimit(p, max_calls)
       THEN [ok |-> FALSE, pruned |-> p, q |-> Rejected(p, t)]
       ELSE [ok |-> TRUE, pruned |-> p, q |-> DequeAppend(p, t)]

\* the record kept of a finished call
CallRecord(id, t, before, r) ==
    [id |-> id, at |-> t, ok |-> r.ok, before |-> before,
     pruned |-> r.pruned, after |-> r.q]

\* the limiter's clock advances half a window at a time
RateStep == WindowS \div 2

InitRate ==
    /\ RoundIdle
    /\ CacheIdle
    /\ HandlerIdle
    /\ ToolsIdle
    /\ RateIdle

\* one call of _rate_limit_ok, run from start to end by one thread
Admit ==
    /\ Len(rl_calls) < MaxAdmits
    /\ \E id \in Identities :
         LET k == StoreKey(id)
             r == _rate_limit_ok(rl_store[k], now, WindowS, MaxCalls)
         IN /\ rl_store' = [rl_store EXCEPT ![k] = r.q]
            /\ rl_calls' = Append(rl_calls, CallRecord(id, now, rl_store[k], r))
    /\ UNCHANGED <<adm_pc, adm_id, adm_now>>
    /\ UNCHANGED <<now, store, memoVars, roundVars, handlerVars, toolVars>>

\* int(time.time()) grows between calls
RateTick ==
    /\ now + RateStep <= MaxRateTicks * RateStep
    /\ now' = now + RateStep
    /\ UNCHANGED <<store, memoVars, roundVars, rateVars, handlerVars, toolVars>>

NextRate ==
    \/ Admit
    \/ RateTick

SpecRate == InitRate /\ [][NextRate]_vars

\* ---- _rate_limit_ok called with max_calls above the deque's capacity ----
\* One identity calls again and again, the clock standing still or moving by
\* RateTick; the latest call only is recorded, in last_admit.

\* values of max_calls greater than maxlen
WideLimits == { DequeMaxLen + 1, 2 * DequeMaxLen }

\* one call _rate_limit_ok(user_id, window_s=60, max_calls=max_calls)
AdmitWide ==
    /\ \E max_calls \in WideLimits :
         LET k == StoreKey(user_id("s1", ":run"))
             r == _rate_limit_ok(rl_store[k], now, WindowS, max_calls)
         IN /\ rl_store' = [rl_store EXCEPT ![k] = r.q]
            /\ last_admit' = [seq |-> 1, at |-> now, max_calls |-> max_calls, ok |-> r.ok,
                              before |-> rl_store[k], pruned |-> r.pruned, after |-> r.q]
    /\ UNCHANGED <<rl_calls, adm_pc, adm_id, adm_now>>
    /\ UNCHANGED <<now, store, memoVars, roundVars, handlerVars>>
    /\ UNCHANGED <<pressVars, extractVars, fileVars, seqVars>>

NextWindow ==
    \/ AdmitWide
    \/ RateTick

SpecWindow == InitRate /\ [][NextWindow]_vars

\* ---- _rate_limit_ok run by several script threads at once ----
\* The function takes no lock: between two of its steps another thread may
\* run any of its own.

\* the identity whose calls overlap
SharedIdentity == user_id("s1", ":run")

InFlight == { t \in Threads : adm_pc[t] # "idle" }

\* the record kept when a call ends: its answer, or that it raised
Ended(t, ok, raised, q) ==
    [id |-> adm_id[t], at |-> adm_now[t], ok |-> ok, raised |-> raised, after |-> q]

\* store = _rate_limit_store(); now = int(time.time()); q = store[user_id]
AdmEnter(t) ==
    /\ adm_pc[t] = "idle"
    /\ Len(rl_calls) + Cardinality(InFlight) < MaxAdmits
    /\ adm_pc' = [adm_pc EXCEPT ![t] = "while"]
    /\ adm_id' = [adm_id EXCEPT ![t] = SharedIdentity]
    /\ adm_now' = [adm_now EXCEPT ![t] = now]
    /\ UNCHANGED <<rl_store, rl_calls>>
    /\ UNCHANGED <<now, store, memoVars, roundVars, handlerVars, toolVars>>

\* while q and now - q[0] >= window_s
AdmWhile(t) ==
    /\ adm_pc[t] = "while"
    /\ LET q == rl_store[StoreKey(adm_id[t])]
       IN adm_pc' = [adm_pc EXCEPT ![t] =
                       IF q # <<>> /\ adm_now[t] - Head(q) >= WindowS
                       THEN "popleft" ELSE "len"]
    /\ UNCHANGED <<rl_store, rl_calls, adm_id, adm_now>>
    /\ UNCHANGED <<now, store, memoVars, roundVars, handlerVars, toolVars>>

\* q.popleft(): IndexError on a deque another thread has emptied meanwhile
AdmPopleft(t) ==
    /\ adm_pc[t] = "popleft"
    /\ LET k == StoreKey(adm_id[t])
           q == rl_store[k]
       IN IF q = <<>>
          THEN /\ rl_calls' = Append(rl_calls, Ended(t, FALSE, TRUE, q))
               /\ adm_pc' = [adm_pc EXCEPT ![t] = "idle"]
               /\ UNCHANGED rl_store
          ELSE /\ rl_store' = [rl_store EXCEPT ![k] = Tail(q)]
               /\ adm_pc' = [adm_pc EXCEPT ![t] = "while"]
               /\ UNCHANGED rl_calls
    /\ UNCHANGED <<adm_id, adm_now>>
    /\ UNCHANGED <<now, store, memoVars, roundVars, handlerVars, toolVars>>

\* if len(q) >= max_calls: return False
AdmLen(t) ==
    /\ adm_pc[t] = "len"
    /\ LET q == rl_store[StoreKey(adm_id[t])]
       IN IF AtLimit(q, MaxCalls)
          THEN /\ rl_calls' = Append(rl_calls, Ended(t, FALSE, FALSE, Rejected(q, adm_now[t])))
               /\ adm_pc' = [adm_pc EXCEPT ![t] = "idle"]
          ELSE /\ adm_pc' = [adm_pc EXCEPT ![t] = "append"]
               /\ UNCHANGED rl_calls
    /\ UNCHANGED <<rl_store, adm_id, adm_now>>
    /\ UNCHANGED <<now, store, memoVars, roundVars, handlerVars, toolVars>>

\* q.append(now); return True
AdmAppend(t) ==
    /\ adm_pc[t] = "append"
    /\ LET k == StoreKey(adm_id[t])
           q == DequeAppend(rl_store[k], adm_now[t])
       IN /\ rl_store' = [rl_store EXCEPT ![k] = q]
          /\ rl_calls' = Append(rl_calls, Ended(t, TRUE, FALSE, q))
    /\ adm_pc' = [adm_pc EXCEPT ![t] = "idle"]
    /\ UNCHANGED <<adm_id, adm_now>>
    /\ UNCHANGED <<now, store, memoVars, roundVars, handlerVars, toolVars>>

NextRateThreads ==
    \/ \E t \in Threads : AdmEnter(t)
    \/ \E t \in Threads : AdmWhile(t)
    \/ \E t \in Threads : AdmPopleft(t)
    \/ \E t \in Threads : AdmLen(t)
    \/ \E t \in Threads : AdmAppend(t)
    \/ RateTick

SpecRateThreads == InitRate /\ [][NextRateThreads]_vars

----------------------------------------------------------------------------
\* The run handler (`if run_btn:`), one press of the Run button at a time.

\* the artifacts of session n last written at time t
SessionFiles(n, exts, t) ==
    { [stem |-> WebName(n), ext |-> e, mtime |-> t, content |-> MeetingInput(BaseRequest)]
      : e \in exts }

\* directories left by earlier rounds: any of the sessions 1, 2 and 4, the
\* highest of them with one artifact or both, older sessions being older files
DirectoryOf(S, exts) ==
    UNION { SessionFiles(n, IF n = SetMax(S) THEN exts ELSE {".md", ".json"}, n - 10)
            : n \in S }

\* files the glob matches whose stem the pattern web_(\d+)$ does or does not
\* accept: an unpadded index and a stem that is no index
OddFiles ==
    { [stem |-> <<"web_", "7">>, ext |-> ".json", mtime |-> 0 - 20,
       content |-> MeetingInput(BaseRequest)],
      [stem |-> <<"web_", "0", "0", "0", "0", "9", "a">>, ext |-> ".md", mtime |-> 0 - 20,
       content |-> MeetingInput(BaseRequest)] }

\* files the globs web_*.md and web_*.json do not match: a session saved
\* under a name of the user's, and notes kept beside the oldest web session
ManualFiles ==
    { [stem |-> <<"my_session">>, ext |-> e, mtime |-> 0 - 30,
       content |-> MeetingInput(BaseRequest)] : e \in {".md", ".json"} }
    \cup { [stem |-> WebName(3), ext |-> ".txt", mtime |-> 0 - 30,
            content |-> MeetingInput(BaseRequest)] }

Directories ==
    { DirectoryOf(S, exts) : S \in SUBSET {1, 2, 4},
                            exts \in { {".md"}, {".json"}, {".md", ".json"} } }
    \cup { EarlierSessions }
    \cup { EarlierSessions \cup ManualFiles }
    \cup { DirectoryOf({2}, {".md", ".json"}) \cup {f} : f \in OddFiles }

\* what a press of Run finds: captcha_ok, _default_api_key, agenda, and the
\* setting fast_path (cache_outputs off when the team meeting is held)
Press(c, k, a, f) == [captcha_ok |-> c, api_key |-> k, agenda |-> a, fast_path |-> f]

\* a press that passes every check, on either branch, and presses that fail
\* one check each
Presses ==
    { Press(TRUE, TRUE, <<"case">>, f) : f \in BOOLEAN }
    \cup { Press(FALSE, TRUE, <<"case">>, TRUE),
           Press(TRUE, FALSE, <<"case">>, TRUE),
           Press(TRUE, TRUE, <<" ">>, TRUE) }

ValidWhateverAgenda(press) ==
    /\ press.captcha_ok
    /\ press.api_key

\* the press passes the captcha, the key and the agenda checks
Valid(press) ==
    /\ press.captcha_ok
    /\ press.api_key
    /\ Strip(press.agenda) # <<>>

\* the directory after the branch the press takes: run_fast_completions
\* writes nothing, run_meeting saves both artifacts under save_name
AfterBranch(st, press, auto_save_name, t) ==
    IF press.fast_path THEN st
    ELSE SaveMeeting(st, WithName(BaseRequest, auto_save_name), t)

\* what the press puts on the page: the st.error of the first check that
\* fails, else the summary of the round
Shown(press, admitted) ==
    IF ~admitted THEN "Rate limit reached"
    ELSE IF ~press.captcha_ok THEN "Please verify the CAPTCHA"
    ELSE IF ~press.api_key THEN "OpenAI API key missing"
    ELSE IF Strip(press.agenda) = <<>> THEN "Please provide a case description"
    ELSE "summary"

\* the function through which the press invoked the model, if it did
Called(press, proceeds) ==
    IF ~proceeds THEN "none"
    ELSE IF press.fast_path THEN "run_fast_completions"
    ELSE "run_meeting"

\* the record kept of a press
PressRecord(n, press, admitted, proceeds, name) ==
    [seq |-> n, shown |-> Shown(press, admitted), called |-> Called(press, proceeds),
     name |-> IF proceeds THEN name ELSE <<>>, fast_path |-> press.fast_path]

\* the st.error texts of a press admitted by the limiter and then refused
\* for its input: no API key, or a blank agenda
InputRefusals == {"OpenAI API key missing", "Please provide a case description"}

\* the record kept of a press's input: was it valid, and how many presses in
\* a row right before it were refused for their input
InputRecord(n, press, before, streak) ==
    [seq |-> n, valid |-> Valid(press),
     refused_before |-> IF before.seq = 0 THEN 0
                        ELSE IF before.shown \in InputRefusals THEN streak.refused_before + 1
                        ELSE 0]

AdmissionAfterChecks(press, q, t) ==
    IF Valid(press) THEN _rate_limit_ok(q, t, WindowS, MaxCalls)
    ELSE [ok |-> TRUE, pruned |-> q, q |-> q]

\* if not _rate_limit_ok(_user_id, window_s=60, max_calls=3): ... st.stop(),
\* the first statement of the handler, whatever the press holds
Admission(press, q, t) == _rate_limit_ok(q, t, WindowS, MaxCalls)

\* the record kept of a name handed out
Assignment(name, st, t, press) ==
    [name |-> name, dir |-> st, at |-> t, fast_path |-> press.fast_path]

InitStore ==
    /\ RoundIdle
    /\ RateIdle
    /\ HandlerIdle
    /\ ToolsIdle
    /\ now = 0
    /\ cache = {}
    /\ store \in Directories
    /\ store_live = {}
    /\ last_call = NoCall
    /\ served = {}
    /\ last_live = NoCall
    /\ variant = <<"none">>

\* One press of Run by session s1, a second or a whole window after the
\* previous one: admission, the checks, the session name, the round, the
\* pruning.
RunHandler ==
    /\ Len(rl_calls) < MaxRuns + 1
    /\ \E wait \in {1, WindowS}, press \in Presses :
         LET t == now + wait
             _user_id == user_id("s1", ":run")
             k == StoreKey(_user_id)
             r == Admission(press, rl_store[k], t)
             auto_save_name == _make_next_web_session_name(store)
         IN /\ now' = t
            /\ rl_store' = [rl_store EXCEPT ![k] = r.q]
            /\ rl_calls' = Append(rl_calls, CallRecord(_user_id, t, rl_store[k], r))
            /\ last_press' = PressRecord(Len(rl_calls) + 1, press, r.ok,
                                         r.ok /\ Valid(press), auto_save_name)
            /\ last_input' = InputRecord(Len(rl_calls) + 1, press, last_press, last_input)
            /\ IF r.ok /\ Valid(press)
               THEN /\ assigned' = Append(assigned, Assignment(auto_save_name, store, t, press))
                    /\ store' = _prune_web_sessions(
                                    AfterBranch(store, press, auto_save_name, t), MaxSessions)
               ELSE UNCHANGED <<assigned, store>>
    /\ UNCHANGED <<adm_pc, adm_id, adm_now, rnd_pc, rnd_name, rnd_doomed, rnd_seen, clobbered>>
    /\ UNCHANGED <<memoVars, roundVars, extractVars, fileVars, seqVars, windowVars>>

NextStore == RunHandler

SpecStore == InitStore /\ [][NextStore]_vars

\* ---- the run handler run by several script threads at once ----
\* Each thread serves a press that passed the checks; the presses may come
\* from different browser sessions.  Nothing in the handler takes a lock:
\* between two file operations of one thread another thread may run its own.
\* A team meeting saves its two artifacts one after the other, the .json
\* first.

\* stems in the order of stems_sorted
RECURSIVE InSortedOrder(_, _)
InSortedOrder(S, st) ==
    IF S = {} THEN <<>>
    ELSE LET x == CHOOSE y \in S : \A z \in S \ {y} : RanksBefore(st, y, z)
         IN <<x>> \o InSortedOrder(S \ {x}, st)

\* for stem in to_delete: for ext in (".md", ".json"): path = save_dir / ...
RECURSIVE PathsOf(_)
PathsOf(stems) ==
    IF stems = <<>> THEN <<>>
    ELSE << <<Head(stems), ".md">>, <<Head(stems), ".json">> >> \o PathsOf(Tail(stems))

\* one artifact written at time t, replacing the file of that name if any
WriteFile(st, name, ext, t) ==
    { f \in st : ~(f.stem = name /\ f.ext = ext) }
    \cup { [stem |-> name, ext |-> ext, mtime |-> t,
            content |-> MeetingInput(WithName(BaseRequest, name))] }

\* threads outside the handler: no press yet, or the last one ended with its
\* summary shown ("idle") or with st.exception(e) ("exception")
AtRest(t) == rnd_pc[t] \in {"idle", "exception"}

\* threads between their first and their second artifact
MidSave == { t \in Threads : rnd_pc[t] = "save_md" }

InitRounds ==
    /\ RoundIdle
    /\ RateIdle
    /\ HandlerIdle
    /\ ToolsIdle
    /\ now = 0
    /\ cache = {}
    /\ store = {}
    /\ store_live = {}
    /\ last_call = NoCall
    /\ served = {}
    /\ last_live = NoCall
    /\ variant = <<"none">>

\* auto_save_name = _make_next_web_session_name(save_dir)
RndAssign(t) ==
    /\ AtRest(t)
    /\ Len(assigned) < MaxRounds
    /\ LET auto_save_name == _make_next_web_session_name(store)
       IN /\ rnd_name' = [rnd_name EXCEPT ![t] = auto_save_name]
          /\ assigned' = Append(assigned, [name |-> auto_save_name])
    /\ rnd_pc' = [rnd_pc EXCEPT ![t] = "round"]
    /\ UNCHANGED <<rnd_doomed, rnd_seen, clobbered, now, store>>
    /\ UNCHANGED <<memoVars, roundVars, rateVars, toolVars>>

\* if fast_path: run_fast_completions(...), which writes no file
RndFast(t) ==
    /\ rnd_pc[t] = "round"
    /\ rnd_pc' = [rnd_pc EXCEPT ![t] = "prune"]
    /\ UNCHANGED <<assigned, rnd_name, rnd_doomed, rnd_seen, clobbered, now, store>>
    /\ UNCHANGED <<memoVars, roundVars, rateVars, toolVars>>

\* run_meeting(..., save_name=auto_save_name) saves <save_name>.json
RndSaveJson(t) ==
    /\ rnd_pc[t] = "round"
    /\ store' = WriteFile(store, rnd_name[t], ".json", now + 1)
    /\ now' = now + 1
    /\ rnd_pc' = [rnd_pc EXCEPT ![t] = "save_md"]
    /\ UNCHANGED <<assigned, rnd_name, rnd_doomed, rnd_seen, clobbered>>
    /\ UNCHANGED <<memoVars, roundVars, rateVars, toolVars>>

\* run_meeting saves <save_name>.md and returns
RndSaveMd(t) ==
    /\ rnd_pc[t] = "save_md"
    /\ store' = WriteFile(store, rnd_name[t], ".md", now + 1)
    /\ now' = now + 1
    /\ rnd_pc' = [rnd_pc EXCEPT ![t] = "prune"]
    /\ UNCHANGED <<assigned, rnd_name, rnd_doomed, rnd_seen, clobbered>>
    /\ UNCHANGED <<memoVars, roundVars, rateVars, toolVars>>

\* the files a prune takes into account: those its exists() calls found
SeenFiles(st, seen) == { f \in st : <<f.stem, f.ext>> \in seen }

\* _prune_web_sessions up to the exists() tests of mtime_for: it returns at
\* once, and the summary is shown, when there are no more than max_sessions
\* stems.  The exists() tests of all stems are taken as one step, and so are
\* the stat() calls that follow them; whatever another thread deletes in
\* between was found to exist and is gone when stat() is called.
RndPruneScan(t) ==
    /\ rnd_pc[t] = "prune"
    /\ LET stems == _get_web_session_basenames(store)
       IN IF Cardinality(stems) <= MaxSessions
          THEN /\ rnd_pc' = [rnd_pc EXCEPT ![t] = "idle"]
               /\ UNCHANGED rnd_seen
          ELSE /\ rnd_pc' = [rnd_pc EXCEPT ![t] = "sort"]
               /\ rnd_seen' = [rnd_seen EXCEPT ![t] =
                     { <<f.stem, f.ext>> : f \in { g \in store : g.stem \in stems } }]
    /\ UNCHANGED <<assigned, rnd_name, rnd_doomed, clobbered, now, store>>
    /\ UNCHANGED <<memoVars, roundVars, rateVars, toolVars>>

\* md.stat().st_mtime / js.stat().st_mtime inside sorted(stems, key=mtime_for):
\* stat() of a path that is gone raises FileNotFoundError, which leaves
\* _prune_web_sessions and is caught by the handler's `except Exception as e:
\* st.exception(e)`, before the summary is shown; otherwise
\* to_delete = stems_sorted[max_sessions:]
RndPruneSort(t) ==
    /\ rnd_pc[t] = "sort"
    /\ LET found == SeenFiles(store, rnd_seen[t])
           gone == { p \in rnd_seen[t] : ~\E f \in store : <<f.stem, f.ext>> = p }
           paths == PathsOf(InSortedOrder(to_delete(found, MaxSessions), found))
       IN IF gone # {}
          THEN /\ rnd_pc' = [rnd_pc EXCEPT ![t] = "exception"]
               /\ UNCHANGED rnd_doomed
          ELSE /\ rnd_doomed' = [rnd_doomed EXCEPT ![t] = paths]
               /\ rnd_pc' = [rnd_pc EXCEPT ![t] = IF paths = <<>> THEN "idle" ELSE "unlink"]
    /\ rnd_seen' = [rnd_seen EXCEPT ![t] = {}]
    /\ UNCHANGED <<assigned, rnd_name, clobbered, now, store>>
    /\ UNCHANGED <<memoVars, roundVars, rateVars, toolVars>>

\* if path.exists(): path.unlink(), for the next path of to_delete
RndUnlink(t) ==
    /\ rnd_pc[t] = "unlink"
    /\ LET path == Head(rnd_doomed[t])
           gone == { f \in store : f.stem = path[1] /\ f.ext = path[2] }
           writers == { u \in MidSave \ {t} : rnd_name[u] = path[1] }
       IN /\ store' = store \ gone
          /\ clobbered' = clobbered \cup
                { [stem |-> f.stem, ext |-> f.ext, writer |-> u, pruner |-> t,
                   named_alike |-> { v \in Threads \ {u} :
                                       ~AtRest(v) /\ rnd_name[v] = f.stem }]
                  : f \in gone, u \in writers }
    /\ rnd_doomed' = [rnd_doomed EXCEPT ![t] = Tail(rnd_doomed[t])]
    /\ rnd_pc' = [rnd_pc EXCEPT ![t] = IF Tail(rnd_doomed[t]) = <<>> THEN "idle" ELSE "unlink"]
    /\ UNCHANGED <<assigned, rnd_name, rnd_seen, now>>
    /\ UNCHANGED <<memoVars, roundVars, rateVars, toolVars>>

NextRounds ==
    \/ \E t \in Threads : RndAssign(t)
    \/ \E t \in Threads : RndFast(t)
    \/ \E t \in Threads : RndSaveJson(t)
    \/ \E t \in Threads : RndSaveMd(t)
    \/ \E t \in Threads : RndPruneScan(t)
    \/ \E t \in Threads : RndPruneSort(t)
    \/ \E t \in Threads : RndUnlink(t)

SpecRounds == InitRounds /\ [][NextRounds]_vars

----------------------------------------------------------------------------
\* Session files pruned and read by name: _prune_web_sessions(save_dir,
\* max_sessions) and render_session_artifacts(session_name).

\* the sessions a directory under study may hold
StudySessions == 1..(MaxSessions + 1)

\* last-modified times of the sessions: rising or falling with the index, all
\* equal, or in no order
FileTime(order, n) ==
    CASE order = "rising" -> 2 * n
      [] order = "falling" -> 2 * (MaxSessions + 2 - n)
      [] order = "equal" -> 2
      [] OTHER -> 2 * (((n * 3) % (MaxSessions + 2)) + 1)

\* the artifacts of session n: both written together, one of them only, or a
\* .md older than every other file with a .json written later
ShapedFiles(n, shape, t) ==
    CASE shape = "both" -> SessionFiles(n, {".md", ".json"}, t)
      [] shape = "md" -> SessionFiles(n, {".md"}, t)
      [] shape = "json" -> SessionFiles(n, {".json"}, t)
      [] OTHER -> SessionFiles(n, {".md"}, 1) \cup SessionFiles(n, {".json"}, t)

StudyDirectories ==
    { UNION { ShapedFiles(n, shape, FileTime(order, n)) : n \in S }
      : S \in SUBSET StudySessions,
        order \in {"rising", "falling", "equal", "mixed"},
        shape \in {"both", "md", "json", "split"} }

\* what medical_meetings may hold: nothing, the transcript of session 2, or
\* both artifacts of a session advisor_meetings never had
LegacyDirectories ==
    { {}, SessionFiles(2, {".md"}, 0), SessionFiles(MaxSessions + 2, {".md", ".json"}, 0) }

\* max_sessions as the tests and the run handler pass it
PruneBounds == { 2, MaxSessions }

\* the names asked for
NamesToRead == { WebName(n) : n \in 1..(MaxSessions + 2) }

ExistsAlways(dir, name, ext) == TRUE

\* path.exists()
Exists(dir, name, ext) == \E f \in dir : f.stem = name /\ f.ext = ext

\* open(path).read(): the content, or FileNotFoundError
Open(dir, name, ext) ==
    IF \E f \in dir : f.stem = name /\ f.ext = ext
    THEN [kind |-> "text",
          content |-> (CHOOSE f \in dir : f.stem = name /\ f.ext = ext).content]
    ELSE [kind |-> "raise", content |-> <<>>]

\* md_path / json_path: advisor_meetings, or medical_meetings when only it
\* has the file
PathDirectory(st, old, name, ext) ==
    IF ~Exists(st, name, ext) /\ Exists(old, name, ext) THEN old ELSE st

\* if path.exists(): read and show it; else: st.info("... not found.")
RenderPart(dir, name, ext) ==
    IF Exists(dir, name, ext) THEN Open(dir, name, ext)
    ELSE [kind |-> "info", content |-> <<"not found">>]

\* what render_session_artifacts puts on the page for each artifact
render_session_artifacts(st, old, session_name) ==
    [name |-> session_name,
     md |-> RenderPart(PathDirectory(st, old, session_name, ".md"), session_name, ".md"),
     json |-> RenderPart(PathDirectory(st, old, session_name, ".json"), session_name, ".json")]

InitFiles ==
    /\ RoundIdle
    /\ RateIdle
    /\ HandlerIdle
    /\ now = 0
    /\ cache = {}
    /\ store \in StudyDirectories
    /\ store_live = {}
    /\ last_call = NoCall
    /\ served = {}
    /\ last_live = NoCall
    /\ variant = <<"none">>
    /\ last_press = NoCall
    /\ last_input = NoCall
    /\ ex_content = <<>>
    /\ ex_max = 0
    /\ ex_out = NoCall
    /\ legacy \in LegacyDirectories
    /\ last_prune = NoCall
    /\ rendered = NoCall
    /\ last_admit = NoCall
    /\ SeqIdle

\* _prune_web_sessions(save_dir, max_sessions)
PruneSessions ==
    /\ \E max_sessions \in PruneBounds :
         /\ store' = _prune_web_sessions(store, max_sessions)
         /\ last_prune' = [seq |-> 1, before |-> store, max_sessions |-> max_sessions]
    /\ UNCHANGED <<now, memoVars, roundVars, rateVars, handlerVars>>
    /\ UNCHANGED <<pressVars, extractVars, legacy, rendered, seqVars, windowVars>>

\* render_session_artifacts(session_name)
RenderSession ==
    /\ \E session_name \in NamesToRead :
         rendered' = [seq |-> 1, files |-> store,
                      page |-> render_session_artifacts(store, legacy, session_name)]
    /\ UNCHANGED <<now, store, memoVars, roundVars, rateVars, handlerVars>>
    /\ UNCHANGED <<pressVars, extractVars, legacy, last_prune, seqVars, windowVars>>

NextFiles ==
    \/ PruneSessions
    \/ RenderSession

SpecFiles == InitFiles /\ [][NextFiles]_vars

----------------------------------------------------------------------------
\* The clarifying-question parser of generate_clarifying_questions and of
\* generate_clarifying_questions_nocache (the same lines in both).
\* A reply is a sequence of tokens: a digit, ".", "-", the bullet U+2022,
\* ")", " ", "\n" are tokens of one character each; any other token is a run
\* of characters holding none of these.

MaxLines == 3
MaxQuestions == 3

\* the character U+2022
Bullet == "U+2022"

\* lines a model's reply is made of
LinePool ==
    { <<"1", ".", " ", "Is it painful?">>,
      <<"2", ".", " ", "Since when?">>,
      <<"-", " ", "Since when?">>,
      <<" ", Bullet, " ", "Any fever?">>,
      <<"Here are my questions:">>,
      <<" ">>,
      <<"3", " ", "Dose 1", ".", "5 mg?">>,
      <<"1", ".", " ", "Taking a", ".", "b?">>,
      <<"1", ".">>,
      <<"4", ")", " ", "Allergies?">>,
      <<"1", "2", ".", " ", "-", " ", "Any fever?">> }

RepliesOfLines == UNION { [1..n -> LinePool] : n \in 0..MaxLines }

\* content.splitlines()
RECURSIVE splitlines(_)
splitlines(content) ==
    IF content = <<>> THEN <<>>
    ELSE IF \E k \in 1..Len(content) : content[k] = "\n"
    THEN LET k == CHOOSE i \in 1..Len(content) :
                     /\ content[i] = "\n"
                     /\ \A j \in 1..(i - 1) : content[j] # "\n"
         IN <<SubSeq(content, 1, k - 1)>> \o splitlines(SubSeq(content, k + 1, Len(content)))
    ELSE <<content>>

\* line.split(".", 1)
SplitAtFirstPeriod(line) ==
    IF \E k \in 1..Len(line) : line[k] = "."
    THEN LET k == CHOOSE i \in 1..Len(line) :
                     /\ line[i] = "."
                     /\ \A j \in 1..(i - 1) : line[j] # "."
         IN <<SubSeq(line, 1, k - 1), SubSeq(line, k + 1, Len(line))>>
    ELSE <<line>>

\* if line[0].isdigit(): q = line.split(".", 1);
\*     line = q[1].strip() if len(q) > 1 else line
StripNumbering(line) ==
    IF Head(line) \in DigitChars
    THEN LET q == SplitAtFirstPeriod(line)
         IN IF Len(q) > 1 THEN Strip(q[2]) ELSE line
    ELSE line

\* if line.startswith(("- ", "<U+2022> ")): line = line[2:].strip()
StripBullet(line) ==
    IF Len(line) >= 2 /\ line[1] \in {"-", Bullet} /\ line[2] = " "
    THEN Strip(SubSeq(line, 3, Len(line)))
    ELSE line

\* the first loop: questions, one entry for every line that is not blank
RECURSIVE Questions(_)
Questions(lines) ==
    IF lines = <<>> THEN <<>>
    ELSE LET line == Strip(Head(lines))
         IN IF line = <<>> THEN Questions(Tail(lines))
            ELSE <<StripBullet(StripNumbering(line))>> \o Questions(Tail(lines))

RECURSIVE UniqKeepingRepeats(_, _)
UniqKeepingRepeats(uniq, questions) ==
    IF questions = <<>> THEN uniq
    ELSE LET q == Head(questions)
         IN UniqKeepingRepeats(IF q # <<>> THEN Append(uniq, q) ELSE uniq, Tail(questions))

\* the second loop: for q in questions: if q and q not in uniq: uniq.append(q)
RECURSIVE Uniq(_, _)
Uniq(uniq, questions) ==
    IF questions = <<>> THEN uniq
    ELSE LET q == Head(questions)
         IN Uniq(IF q # <<>> /\ ~\E k \in 1..Len(uniq) : uniq[k] = q
                 THEN Append(uniq, q) ELSE uniq,
                 Tail(questions))

\* uniq[:max_questions], for max_questions >= 0
Truncated(uniq, max_questions) ==
    SubSeq(uniq, 1, IF Len(uniq) < max_questions THEN Len(uniq) ELSE max_questions)

\* what generate_clarifying_questions returns for the reply `content`
ParseQuestions(content, max_questions) ==
    Truncated(Uniq(<<>>, Questions(splitlines(content))), max_questions)

InitExtract ==
    /\ RoundIdle
    /\ RateIdle
    /\ HandlerIdle
    /\ now = 0
    /\ cache = {}
    /\ store = {}
    /\ store_live = {}
    /\ last_call = NoCall
    /\ served = {}
    /\ last_live = NoCall
    /\ variant = <<"none">>
    /\ last_press = NoCall
    /\ last_input = NoCall
    /\ \E lines \in RepliesOfLines : ex_content = Join(<<"\n">>, lines)
    /\ ex_max \in 0..MaxQuestions
    /\ ex_out = NoCall
    /\ legacy = {}
    /\ last_prune = NoCall
    /\ rendered = NoCall
    /\ last_admit = NoCall
    /\ SeqIdle

\* the parsing of one reply
Extract ==
    /\ ex_out = NoCall
    /\ ex_out' = [seq |-> 1, questions |-> ParseQuestions(ex_content, ex_max)]
    /\ UNCHANGED <<ex_content, ex_max, pressVars, fileVars, seqVars, windowVars>>
    /\ UNCHANGED <<now, store, memoVars, roundVars, rateVars, handlerVars>>

NextExtract == Extract

SpecExtract == InitExtract /\ [][NextExtract]_vars

----------------------------------------------------------------------------
\* Properties of one round (SpecRound).

\* sub occurs in t as a contiguous run of tokens
IsInfix(sub, t) ==
    \E k \in 0..(Len(t) - Len(sub)) : SubSeq(t, k + 1, k + Len(sub)) = sub

Members == 1..Len(member_specs)

\* the member phase is over: the lead call has started, returned or raised
RoundAtLead == pc \in {"lead", "returned", "raised"}

AllDone ==
    /\ Len(futures) = Len(member_specs)
    /\ \A i \in 1..Len(futures) : futures[i].state = "done"

MemberCalls(j) ==
    Cardinality({ n \in 1..Len(chat_log) :
                    chat_log[n].system = member_prompt(member_specs[j]).system })

LeadCalls ==
    Cardinality({ n \in 1..Len(chat_log) : chat_log[n].system = lead_system })

\* member j's invocation raised
RaisedMember(j) == futures[j].outcome.kind = "raise"

\* member j's invocation raised or came back with no or empty content
FailedMember(j) ==
    futures[j].outcome.kind \in {"raise", "none"} \/ futures[j].outcome.text = <<>>

\* the lead input carries a block tagged with position j
Included(j) == IsInfix(<<"[member ", ToString(j), "]\n">>, lead_user)

\* C1: for every roster of M members and every completion order, the collected
\* member outputs never exceed M entries, are exactly M once the member phase is
\* over, and entry j is what the invocation made for roster member j yielded:
\* its text, or the empty marker when it raised or returned nothing.
C1_RosterOrder ==
    /\ Len(member_outputs) <= Len(member_specs)
    /\ RoundAtLead => Len(member_outputs) = Len(member_specs)
    /\ \A j \in 1..Len(member_outputs) :
         \E k \in 1..Len(futures) :
            /\ futures[k].system = member_prompt(member_specs[j]).system
            /\ futures[k].state = "done"
            /\ IF futures[k].outcome.kind = "text"
               THEN member_outputs[j] = futures[k].outcome.text
               ELSE member_outputs[j] = <<>>

\* a finished round of at least two members in which a later member finished
\* before an earlier one and every entry carries its member's advice
C1_Witness ==
    /\ pc = "returned"
    /\ overtaken
    /\ Len(member_specs) >= 2
    /\ \A j \in Members : member_outputs[j] = AdviceOf(futures[j].system)

\* the collecting thread is never stuck on a settled member call: it can take
\* the next output as soon as that call has ended, whatever its outcome, and it
\* can start the lead call once every output is taken
MemberPhaseProceeds ==
    pc = "collect" =>
        /\ (Len(member_outputs) < Len(futures)
             /\ futures[Len(member_outputs) + 1].state = "done") => ENABLED Collect
        /\ (Len(member_outputs) = Len(futures) /\ AllDone) => ENABLED LeadStart

\* C2 as stated: with exactly k member invocations raising, every member is
\* invoked once and runs to its end, no member error reaches the caller, exactly
\* k entries are the empty marker and the lead input holds exactly the other
\* M-k outputs.
C2_AsStated ==
    /\ MemberPhaseProceeds
    /\ RoundAtLead =>
        /\ AllDone
        /\ \A j \in Members : MemberCalls(j) = 1
        /\ pc = "raised" => lead_reply.kind = "raise"
        /\ \A j \in Members : (member_outputs[j] = <<>>) <=> RaisedMember(j)
        /\ \A j \in Members : Included(j) <=> ~RaisedMember(j)

\* C2 (amended): whichever members fail, every member is invoked exactly once
\* and runs to its end, no member error reaches the caller (only the lead's own
\* invocation can make the round raise), the entries that are the empty marker
\* are exactly those of the members that raised or returned no or empty
\* content, and the lead input holds, tagged and unchanged, exactly the outputs
\* that are not blank after trimming.
C2_FailureIsolation ==
    /\ MemberPhaseProceeds
    /\ RoundAtLead =>
        /\ AllDone
        /\ \A j \in Members : MemberCalls(j) = 1
        /\ pc = "raised" => lead_reply.kind = "raise"
        /\ \A j \in Members : (member_outputs[j] = <<>>) <=> FailedMember(j)
        /\ \A j \in Members :
             /\ Included(j) <=> (~FailedMember(j) /\ Strip(futures[j].outcome.text) # <<>>)
             /\ Included(j) => IsInfix(MemberTag(j, futures[j].outcome.text), lead_user)

\* a finished round of three members: one raised, one returned only white
\* space, one gave advice
C2_Witness ==
    /\ pc = "returned"
    /\ Len(member_specs) >= 3
    /\ \E a, b, c \in Members :
         /\ RaisedMember(a)
         /\ futures[b].outcome = Returned(<<" ">>)
         /\ futures[c].outcome = Returned(AdviceOf(futures[c].system))

\* C3: while the lead invocation is in progress, and ever after it has started,
\* every member invocation of the round has been submitted and has settled.
C3_FanInBarrier ==
    (pc = "lead" \/ LeadCalls > 0) => AllDone

\* the lead call is in progress after an out-of-order completion of members
C3_Witness ==
    /\ pc = "lead"
    /\ overtaken
    /\ Len(member_specs) >= 2

\* C4: a round whose lead invocation raised still returns, and what it returns
\* is the fixed placeholder.
C4_LeadFailureFallback ==
    lead_reply.kind = "raise" => (pc = "returned" /\ summary = NoSummary)

\* C5: a returned round's summary is the placeholder when the lead returned no
\* content or empty text, and otherwise exactly the text the lead returned.
C5_SummaryRule ==
    pc = "returned" =>
        IF lead_reply.kind = "none" \/ lead_reply.text = <<>>
        THEN summary = NoSummary
        ELSE summary = lead_reply.text

\* the lead returned empty text and the round returned the placeholder; the
\* other case is the lead returning white space only
C5_Witness ==
    /\ pc = "returned"
    /\ lead_reply = Returned(<<>>)
    /\ summary = NoSummary

\* no member of the roster produced usable output
NoUsableMember ==
    /\ AllDone
    /\ \A j \in Members :
         futures[j].outcome.kind # "text" \/ Strip(futures[j].outcome.text) = <<>>

C6_WitnessEmptyRoster ==
    /\ pc = "returned"
    /\ member_specs = <<>>
    /\ LeadCalls = 1

----------------------------------------------------------------------------
\* Properties of the memoized meeting (SpecMemo, SpecCache).

\* the request of a call, its session name apart
RequestOf(a) ==
    [agenda |-> a.agenda, agenda_questions |-> a.agenda_questions,
     agenda_rules |-> a.agenda_rules, contexts |-> a.contexts,
     num_rounds |-> a.num_rounds, pubmed_search |-> a.pubmed_search,
     team_lead_data |-> a.team_lead_data, team_members_data |-> a.team_members_data]

HasBothArtifacts(st, stem) ==
    \A e \in {".md", ".json"} : \E f \in st : f.stem = stem /\ f.ext = e

\* C7 as stated: a run request whose agenda, questions, rules, contexts, round
\* count and roster equal those of a request served less than 24 hours before
\* is a cache hit, whatever session name it was given.
C7_SessionNameIgnored ==
    (/\ last_call.seq >= 1
     /\ \E p \in served : /\ p.n < last_call.seq
                          /\ p.req = RequestOf(last_call.args)
                          /\ last_call.at - p.at < TTL)
        => last_call.hit

\* C8: a call never shares the entry of a call that differed from it in a
\* substantive field: a hit is served from an entry stored for the same agenda,
\* questions, rules, contexts, round count, lead and members, and what the call
\* returns is the summary of its own request.
C8_DistinctRequestsMiss ==
    last_call.seq >= 1 =>
        /\ last_call.value = SummaryFor(last_call.args)
        /\ last_call.hit =>
             \E e \in cache :
                /\ e.at <= last_call.at
                /\ e.args.agenda = last_call.args.agenda
                /\ e.args.agenda_questions = last_call.args.agenda_questions
                /\ e.args.agenda_rules = last_call.args.agenda_rules
                /\ e.args.contexts = last_call.args.contexts
                /\ e.args.num_rounds = last_call.args.num_rounds
                /\ e.args.team_lead_data = last_call.args.team_lead_data
                /\ e.args.team_members_data = last_call.args.team_members_data

\* the latest call was a miss although a valid entry of the other request,
\* stored earlier under the same session name, was in the memo
C8_Witness ==
    /\ last_call.seq >= 1
    /\ ~last_call.hit
    /\ \E e \in cache :
         /\ e.args.save_name = last_call.args.save_name
         /\ RequestOf(e.args) # RequestOf(last_call.args)
         /\ e.at < last_call.at
         /\ last_call.at - e.at < TTL

\* C9: a repeated call with an unchanged key is served from the stored entry,
\* which keeps its timestamp, when the entry is younger than 24 hours; when the
\* entry is older than 24 hours the meeting is held again (its artifacts are
\* rewritten) and the entry carries the time of the repeat.
C9_ValidityWindow ==
    last_call.seq >= 1 =>
        /\ (last_call.prior_age >= 0 /\ last_call.prior_age < TTL) =>
              /\ last_call.hit
              /\ \E e \in cache : /\ e.key = CacheKey(last_call.args)
                                  /\ e.at = last_call.at - last_call.prior_age
                                  /\ e.value = last_call.value
        /\ last_call.prior_age > TTL =>
              /\ ~last_call.hit
              /\ \A e \in cache : e.key = CacheKey(last_call.args) => e.at = last_call.at
              /\ \E e \in cache : e.key = CacheKey(last_call.args)
              /\ HasBothArtifacts(store, last_call.args.save_name)
              /\ mtime_for(store, last_call.args.save_name) = last_call.at

\* a repeat after more than 24 hours was executed again
C9_Witness ==
    /\ last_call.seq >= 1
    /\ last_call.prior_age > TTL
    /\ ~last_call.hit

\* a repeat 12 hours after the entry was stored was a hit
C9_WitnessHit ==
    /\ last_call.seq >= 1
    /\ last_call.prior_age = TTL \div 2
    /\ last_call.hit

\* C10: after any sequence of run requests, serving them with the cache on and
\* serving them with the cache off have returned the same summary, assigned the
\* same session name, left the same session files, and the artifacts of the
\* latest request's session exist in both.
C10_CacheIsPureOptimization ==
    /\ last_call.seq = last_live.seq
    /\ last_call.seq >= 1 =>
          /\ last_call.value = last_live.value
          /\ last_call.args.save_name = last_live.name
          /\ store = store_live
          /\ HasBothArtifacts(store, last_call.args.save_name)
          /\ HasBothArtifacts(store_live, last_live.name)

\* the same request served twice within 24 hours in a directory that was
\* pruned
C10_Witness ==
    /\ last_call.seq >= 2
    /\ \E p \in served : /\ p.n < last_call.seq
                         /\ p.req = RequestOf(last_call.args)
                         /\ last_call.at - p.at < TTL
    /\ ~HasBothArtifacts(store, WebName(3))
    /\ HasBothArtifacts(store, WebName(MaxSessions + 3))

----------------------------------------------------------------------------
\* Properties of the rate limiter (SpecRate).

\* the RateWindow of an identity
RateWindow(id) == rl_store[StoreKey(id)]

\* positions in the history of the calls made for an identity
CallsFor(id) == { k \in DOMAIN rl_calls : rl_calls[k].id = id }

\* the times of the admitted calls for id among the first n calls, in order
RECURSIVE AdmittedTimes(_, _)
AdmittedTimes(id, n) ==
    IF n = 0 THEN <<>>
    ELSE IF rl_calls[n].id = id /\ rl_calls[n].ok
         THEN Append(AdmittedTimes(id, n - 1), rl_calls[n].at)
         ELSE AdmittedTimes(id, n - 1)

IsSuffix(x, y) ==
    /\ Len(x) <= Len(y)
    /\ \A i \in 1..Len(x) : x[i] = y[Len(y) - Len(x) + i]

\* the next call for the same identity after call k, if any
NextCallFor(k) ==
    { j \in CallsFor(rl_calls[k].id) :
        /\ j > k
        /\ \A i \in CallsFor(rl_calls[k].id) : i > k => j <= i }

\* four successive calls for one identity, the first on an empty window, the
\* last less than a window after the first
Burst(a, b, c, d) ==
    /\ b \in NextCallFor(a)
    /\ c \in NextCallFor(b)
    /\ d \in NextCallFor(c)
    /\ rl_calls[a].pruned = <<>>
    /\ rl_calls[d].at - rl_calls[a].at < WindowS

\* C11: for one identity with window 60 and max 3, over any sequence of admit
\* calls at non-decreasing times, the RateWindow never holds more than max
\* timestamps, no more than max calls are admitted within any trailing window
\* (t - window, t], and four calls within 60 seconds are answered true, true,
\* true, false.
C11_AtMostMaxPerWindow ==
    \A id \in Identities :
      /\ Len(RateWindow(id)) <= MaxCalls
      /\ \A k \in CallsFor(id) : Len(rl_calls[k].after) <= MaxCalls
      /\ \A k \in CallsFor(id) :
           LET t == rl_calls[k].at
           IN Cardinality({ j \in CallsFor(id) :
                              /\ rl_calls[j].ok
                              /\ t - WindowS < rl_calls[j].at
                              /\ rl_calls[j].at <= t }) <= MaxCalls
      /\ \A a \in CallsFor(id) : \A b \in NextCallFor(a) :
         \A c \in NextCallFor(b) : \A d \in NextCallFor(c) :
           Burst(a, b, c, d) =>
             /\ rl_calls[a].ok /\ rl_calls[b].ok /\ rl_calls[c].ok
             /\ ~rl_calls[d].ok

\* four calls for one identity spread over two instants of one window
C11_Witness ==
    \E a \in DOMAIN rl_calls : \E b \in NextCallFor(a) :
    \E c \in NextCallFor(b) : \E d \in NextCallFor(c) :
      /\ Burst(a, b, c, d)
      /\ rl_calls[d].at > rl_calls[a].at
      /\ ~rl_calls[d].ok

\* C12: a rejection is never permanent: a call made once the oldest counted
\* timestamp is a window old or older is admitted; and only admitted calls
\* are counted, so rejected calls do not extend the blocking.
C12_RejectionIsTemporary ==
    \A k \in DOMAIN rl_calls :
      LET c == rl_calls[k]
      IN /\ (c.before # <<>> /\ c.at - Head(c.before) >= WindowS) => c.ok
         /\ IsSuffix(c.before, AdmittedTimes(c.id, k - 1))
         /\ IsSuffix(c.after, AdmittedTimes(c.id, k))

\* an identity rejected, and admitted once the window of its oldest counted
\* timestamp has passed
C12_Witness ==
    \E i, k \in DOMAIN rl_calls :
      /\ i < k
      /\ rl_calls[i].id = rl_calls[k].id
      /\ ~rl_calls[i].ok /\ rl_calls[k].ok
      /\ rl_calls[k].at - Head(rl_calls[i].before) >= WindowS

\* the timestamps of q not older than the window at time t, in order
NotOlderThanWindow(q, t) ==
    LET Keep(ts) == ts >= t - WindowS IN SelectSeq(q, Keep)

\* the timestamps of q younger than the window at time t, in order
YoungerThanWindow(q, t) ==
    LET Keep(ts) == t - ts < WindowS IN SelectSeq(q, Keep)

\* C13 as stated: each call drops exactly the timestamps with
\* timestamp < now - window, so that a timestamp whose age equals the window
\* is kept and still counts.
C13_AsStated ==
    \A k \in DOMAIN rl_calls :
      rl_calls[k].pruned = NotOlderThanWindow(rl_calls[k].before, rl_calls[k].at)

\* C13: each call drops exactly the timestamps with now - timestamp >= window:
\* a timestamp whose age equals the window is dropped and no longer counts.
C13_DropsFromWindowAge ==
    \A k \in DOMAIN rl_calls :
      rl_calls[k].pruned = YoungerThanWindow(rl_calls[k].before, rl_calls[k].at)

\* a call that finds one timestamp aged exactly the window and a younger one
C13_Witness ==
    \E k \in DOMAIN rl_calls :
      LET c == rl_calls[k]
      IN /\ Len(c.before) >= 2
         /\ c.at - Head(c.before) = WindowS
         /\ c.pruned # <<>>
         /\ c.pruned # c.before

\* C14: a call that rejects leaves the RateWindow as it found it, nothing
\* appended and nothing removed; a call that accepts appends exactly one
\* timestamp, its `now`, at the end of what the pruning left.
C14_AdmitEffect ==
    /\ \A k \in DOMAIN rl_calls :
         LET c == rl_calls[k]
         IN /\ ~c.ok => c.after = c.before
            /\ c.ok => c.after = Append(c.pruned, c.at)
    /\ rl_calls # <<>> =>
         RateWindow(rl_calls[Len(rl_calls)].id) = rl_calls[Len(rl_calls)].after

\* a rejected call, and an accepted call that appended behind an older
\* timestamp
C14_Witness ==
    /\ \E k \in DOMAIN rl_calls : ~rl_calls[k].ok /\ rl_calls[k].before # <<>>
    /\ \E k \in DOMAIN rl_calls :
         /\ rl_calls[k].ok
         /\ rl_calls[k].pruned # <<>>
         /\ Head(rl_calls[k].pruned) < rl_calls[k].at

\* the call for the same identity before call k, if any
PrevCallFor(k) == { j \in CallsFor(rl_calls[k].id) : k \in NextCallFor(j) }

\* C15: the windows of distinct identities are independent: every call finds
\* the window exactly as the previous call for the same identity left it
\* (empty if there was none), whatever was admitted for other identities in
\* between, and ':clarify' and ':run' of one session have separate quotas.
C15_IdentitiesIndependent ==
    /\ \A k \in DOMAIN rl_calls :
         /\ PrevCallFor(k) = {} => rl_calls[k].before = <<>>
         /\ \A j \in PrevCallFor(k) : rl_calls[k].before = rl_calls[j].after
    /\ \A id \in Identities :
         /\ CallsFor(id) = {} => RateWindow(id) = <<>>
         /\ \A k \in CallsFor(id) : NextCallFor(k) = {} => RateWindow(id) = rl_calls[k].after

\* ':run' of a session is at its quota and rejected, and ':clarify' of the
\* same session is admitted afterwards at the same instant
C15_Witness ==
    \E j, k \in DOMAIN rl_calls :
      /\ j < k
      /\ rl_calls[j].id = user_id("s1", ":run")
      /\ rl_calls[k].id = user_id("s1", ":clarify")
      /\ rl_calls[j].at = rl_calls[k].at
      /\ ~rl_calls[j].ok
      /\ rl_calls[k].ok

----------------------------------------------------------------------------
\* Properties of the rate limiter under overlapping calls (SpecRateThreads).

\* C16: with several calls for the same identity interleaved at the prune,
\* the length check and the append, the window never exceeds max entries and
\* no more than max calls are admitted within one window.
C16_ConcurrencySafe ==
    /\ Len(RateWindow(SharedIdentity)) <= MaxCalls
    /\ \A k \in DOMAIN rl_calls :
         Cardinality({ j \in DOMAIN rl_calls :
                         /\ rl_calls[j].ok
                         /\ rl_calls[k].at - WindowS < rl_calls[j].at
                         /\ rl_calls[j].at <= rl_calls[k].at }) <= MaxCalls

----------------------------------------------------------------------------
\* Properties of session naming in the run handler (SpecStore).

\* the name is the prefix followed by decimal digits only
IsSessionName(name) ==
    /\ Len(name) >= 2
    /\ Head(name) = "web_"
    /\ \A k \in 2..Len(name) : name[k] \in DigitChars

\* the numeric suffix of a session name
SuffixOf(name) == ParseInt(Tail(name))

\* the numeric suffixes found in a directory: every stem of an artifact of
\* either kind that is the prefix followed by digits
SuffixesIn(dir) ==
    { SuffixOf(f.stem) : f \in { g \in dir : /\ g.ext \in {".md", ".json"}
                                              /\ IsSessionName(g.stem) } }

\* the digits of a name: no shorter than the padding, no leading zero beyond it
PaddedTo(name, n) ==
    /\ Len(Tail(name)) >= PadWidth
    /\ Len(Tail(name)) > PadWidth => name[2] # "0"
    /\ SuffixOf(name) = n

\* C17: the name handed out is the prefix followed by the zero-padded value
\* of (largest numeric suffix present + 1), whatever the gaps and whether a
\* session has one artifact or both: suffixes {1,2,4} give 5, an empty
\* directory gives 1.
C17_NextNameIsMaxPlusOne ==
    \A i \in DOMAIN assigned :
      LET a == assigned[i]
          present == SuffixesIn(a.dir)
      IN /\ IsSessionName(a.name)
         /\ \A n \in present : n < SuffixOf(a.name)
         /\ present = {} => PaddedTo(a.name, 1)
         /\ present # {} => \E n \in present : PaddedTo(a.name, n + 1)
         /\ present = {1, 2, 4} => a.name = <<"web_", "0", "0", "0", "0", "5">>
         /\ a.dir = {} => a.name = <<"web_", "0", "0", "0", "0", "1">>

\* a name handed out in a directory holding sessions 1, 2 and 4, the last of
\* them with its .json artifact only
C17_Witness ==
    \E i \in DOMAIN assigned :
      /\ SuffixesIn(assigned[i].dir) = {1, 2, 4}
      /\ { f.ext : f \in { g \in assigned[i].dir : g.stem = WebName(4) } } = {".json"}
      /\ assigned[i].name = WebName(5)

\* C18: over any sequence of rounds the names handed out are strictly
\* increasing in their numeric suffix, and no name is handed out twice, even
\* after pruning.
C18_NamesNeverReused ==
    \A i, j \in DOMAIN assigned :
      i < j => SuffixOf(assigned[i].name) < SuffixOf(assigned[j].name)

----------------------------------------------------------------------------
\* Properties of concurrent rounds (SpecRounds).

\* threads between the assignment of their name and the end of their prune
RoundsInFlight == { t \in Threads : ~AtRest(t) }

\* C19: under concurrent rounds, two rounds in flight at the same time never
\* hold the same assigned name.
C19_NoDuplicateNamesInFlight ==
    \A t, u \in RoundsInFlight : t # u => rnd_name[t] # rnd_name[u]

\* C20: under concurrent rounds, pruning by one round never deletes an
\* artifact of a session that another round has written one artifact of but
\* not yet both.
C20_PruneSparesSessionsBeingWritten ==
    clobbered = {}

----------------------------------------------------------------------------
\* Properties of pruning and reading session files (SpecFiles).

\* the sessions of a directory: the stems that have an artifact
SessionsOf(dir) == { f.stem : f \in { g \in dir : g.ext \in {".md", ".json"} } }

\* the time of a session: the later of its artifacts' times
SessionTime(dir, stem) ==
    LET times == { f.mtime : f \in { g \in dir : g.stem = stem } }
    IN CHOOSE m \in times : \A x \in times : x <= m

\* the sessions the latest prune removed
Pruned == SessionsOf(last_prune.before) \ SessionsOf(store)

----------------------------------------------------------------------------
\* Properties of the run handler, one press at a time (SpecStore).

\* the press went through to the end and showed the round's summary
Completed == last_press.seq > 0 /\ last_press.shown = "summary"

\* C22: every round that completes is persisted: when the handler finishes
\* with the summary, both artifacts exist under the name assigned to the
\* round.
C22_CompletedRoundIsPersisted ==
    Completed =>
      /\ \E f \in store : f.stem = last_press.name /\ f.ext = ".md"
      /\ \E f \in store : f.stem = last_press.name /\ f.ext = ".json"

Refused(press) ==
    press.shown \in {"Rate limit reached", "Please provide a case description"}

\* C26: a press refused by the rate limiter or for a blank (whitespace-only)
\* agenda starts no round: no model invocation, no session name assigned,
\* nothing written and nothing pruned.
C26_RefusedBeforeAnyRound ==
    [][(last_press' # last_press /\ Refused(last_press'))
         => /\ last_press'.called = "none"
            /\ last_press'.name = <<>>
            /\ assigned' = assigned
            /\ store' = store]_vars

\* a press refused by the limiter after three rounds in a directory that
\* holds sessions
C26_Witness ==
    /\ last_press.seq > 0
    /\ last_press.shown = "Rate limit reached"
    /\ Len(assigned) = MaxCalls
    /\ store # {}

\* a press with a whitespace-only agenda after a round
C26_WitnessBlankAgenda ==
    /\ last_press.seq > 0
    /\ last_press.shown = "Please provide a case description"
    /\ assigned # <<>>
    /\ store # {}

----------------------------------------------------------------------------
\* Properties of reading a session by name (SpecFiles).

\* the file of a directory with that name and extension, if there is one
FilesNamed(dir, name, ext) == { f \in dir : f.stem = name /\ f.ext = ext }

\* the part of the page for the artifact ext
PartOf(page, ext) == IF ext = ".md" THEN page.md ELSE page.json

NotFound(part) == part.kind = "info" /\ part.content = <<"not found">>

Returns(part, files) == part.kind = "text" /\ \E f \in files : part.content = f.content

C24_WitnessPartial ==
    /\ rendered.seq = 1
    /\ legacy = {}
    /\ NotFound(rendered.page.md)
    /\ rendered.page.json.kind = "text"

----------------------------------------------------------------------------
\* Properties of the run handler under concurrent presses: failures of
\* persistence (SpecRounds).

\* C25: whatever goes wrong while the files are written, pruned or deleted,
\* a file vanishing under a concurrent prune included, the press still ends
\* with its summary shown: no handler ends with the exception shown in its
\* place.
C25_SummarySurvivesPersistenceFailure ==
    \A t \in Threads : rnd_pc[t] # "exception"

----------------------------------------------------------------------------
\* Properties of the clarifying-question parser (SpecExtract).

\* the lines of the reply, trimmed, blank ones left out
ReplyLines ==
    LET trimmed == [k \in 1..Len(splitlines(ex_content)) |-> Strip(splitlines(ex_content)[k])]
        NotBlank(line) == line # <<>>
    IN SelectSeq(trimmed, NotBlank)

Numbered(line) == Head(line) \in DigitChars

Bulleted(line) == Len(line) >= 2 /\ line[1] \in {"-", Bullet} /\ line[2] = " "

FreeText(line) == ~Numbered(line) /\ ~Bulleted(line)

\* C27: a reply with no numbered and no bulleted line yields the empty list,
\* and a free-text line is never returned as a question.
C27_FreeTextYieldsNothing ==
    ex_out.seq = 1 =>
      /\ (\A k \in 1..Len(ReplyLines) : FreeText(ReplyLines[k])) => ex_out.questions = <<>>
      /\ \A i \in 1..Len(ex_out.questions) :
            \A k \in 1..Len(ReplyLines) :
               FreeText(ReplyLines[k]) => ex_out.questions[i] # ReplyLines[k]

\* the candidate questions of the reply, one for every line that is not blank
Candidates == Questions(splitlines(ex_content))

DistinctCandidates == { Candidates[k] : k \in 1..Len(Candidates) } \ {<<>>}

\* where a candidate is first seen
FirstSeen(q) ==
    CHOOSE i \in 1..Len(Candidates) :
       /\ Candidates[i] = q
       /\ \A j \in 1..(i - 1) : Candidates[j] # q

\* C28: for every reply and every N >= 0 the result is the first N distinct
\* non-empty candidates in the order they were first seen: each entry is a
\* non-empty candidate, no entry is repeated, none is skipped, and the length
\* is the smaller of N and the number of distinct non-empty candidates.
C28_FirstDistinctCandidates ==
    ex_out.seq = 1 =>
      LET out == ex_out.questions
          n == Cardinality(DistinctCandidates)
      IN /\ Len(out) = IF ex_max < n THEN ex_max ELSE n
         /\ \A i \in 1..Len(out) : out[i] \in DistinctCandidates
         /\ \A i, j \in 1..Len(out) :
               i < j => out[i] # out[j] /\ FirstSeen(out[i]) < FirstSeen(out[j])
         /\ \A i \in 1..Len(out) :
               \A q \in DistinctCandidates :
                  FirstSeen(q) < FirstSeen(out[i]) => \E j \in 1..(i - 1) : out[j] = q

\* a reply of three lines with a repeated candidate, cut to N = 1
C28_Witness ==
    /\ ex_out.seq = 1
    /\ Len(Candidates) = MaxLines
    /\ \E i, j \in 1..Len(Candidates) : i < j /\ Candidates[i] = Candidates[j]
    /\ Cardinality(DistinctCandidates) = 2
    /\ ex_max = 1
    /\ Len(ex_out.questions) = 1

\* the tokens of a numbered line after its leading digits
RECURSIVE AfterDigits(_)
AfterDigits(line) ==
    IF line # <<>> /\ Head(line) \in DigitChars THEN AfterDigits(Tail(line)) ELSE line

\* a text without the bullet marker it starts with, if any
AfterMarker(text) ==
    IF Bulleted(text) THEN Strip(SubSeq(text, 3, Len(text))) ELSE text

\* C29: of a line that starts with a digit only the leading "<number>."
\* token is removed: the text after a later period stays, and a line whose
\* leading number is not followed by a period keeps its whole text.
C29_OnlyLeadingNumberRemoved ==
    (ex_out.seq = 1 /\ ex_max >= 1 /\ Len(ReplyLines) = 1 /\ Numbered(ReplyLines[1])) =>
      LET line == ReplyLines[1]
          rest == AfterDigits(line)
          kept == IF rest # <<>> /\ Head(rest) = "."
                  THEN AfterMarker(Strip(Tail(rest)))
                  ELSE line
      IN ex_out.questions = IF kept = <<>> THEN <<>> ELSE <<kept>>

----------------------------------------------------------------------------
\* Properties of the pool under a large roster (SpecPool).

\* C30: with M >= 1 members the member calls in flight never number more
\* than min(8, M), and every member has been called, once, by the time the
\* lead is.
C30_InFlightWithinPoolCap ==
    LET M == Len(member_specs)
    IN /\ Cardinality(Running) <= (IF M < 8 THEN M ELSE 8)
       /\ pc \in {"lead", "returned"} =>
             /\ \A j \in 1..M : MemberCalls(j) = 1
             /\ Len(member_outputs) = M

\* a roster larger than the pool: eight calls in flight, another one waiting
C30_Witness ==
    /\ Len(member_specs) > 8
    /\ Cardinality(Running) = 8
    /\ Pending # {}

\* the round of a roster larger than the pool has ended
C30_WitnessAllInvoked ==
    /\ Len(member_specs) > 8
    /\ pc = "returned"

----------------------------------------------------------------------------
\* Properties of the invocations of one round (SpecRound).

\* C31: whatever num_rounds is and whichever calls fail, a round never makes
\* more than one invocation per roster member nor more than one lead
\* invocation, and once the lead is invoked the round has made exactly M
\* member invocations, one per member, followed by exactly one lead
\* invocation, M + 1 in all; none is added afterwards.
C31_OneCallPerMemberThenLead ==
    LET M == Len(member_specs)
    IN /\ \A j \in 1..M : MemberCalls(j) <= 1
       /\ LeadCalls <= 1
       /\ Len(chat_log) <= M + 1
       /\ RoundAtLead =>
             /\ \A j \in 1..M : MemberCalls(j) = 1
             /\ LeadCalls = 1
             /\ Len(chat_log) = M + 1
             /\ chat_log[M + 1].system = lead_system

\* a returned round asked for three rounds, in which one member raised and
\* another returned empty text
C31_Witness ==
    /\ pc = "returned"
    /\ num_rounds = 3
    /\ Len(chat_log) = Len(member_specs) + 1
    /\ \E a, b \in 1..Len(member_specs) :
         /\ futures[a].outcome.kind = "raise"
         /\ futures[b].outcome = Returned(<<>>)

----------------------------------------------------------------------------
\* Termination of one round (SpecRoundFair).

\* a round that has started gets to the lead call, whatever its members do,
\* and ends: run_fast_completions returns or raises
RoundEventuallyEnds ==
    /\ (pc = "submit") ~> RoundAtLead
    /\ (pc = "submit") ~> (pc \in {"returned", "raised"})

\* C32: every round that starts eventually finishes: provided every
\* invocation eventually returns or fails and the workers are scheduled
\* fairly, the round eventually reaches the lead synthesis and returns.
C32_RoundEventuallyReturns ==
    (pc = "submit") ~> (RoundAtLead /\ pc = "returned")

----------------------------------------------------------------------------
\* Properties of the lead's input (SpecRound).

\* where the tag of roster position j starts in the lead input
TagAt(j) ==
    CHOOSE k \in 0..Len(lead_user) :
       SubSeq(lead_user, k + 1, k + 3) = <<"[member ", ToString(j), "]\n">>

\* C33: in the lead input an output is included if and only if it is not
\* empty after trimming; an included output follows the tag of its member's
\* position in the whole roster, unchanged; no other position is tagged; and
\* the included outputs stand in increasing roster position.
C33_TaggedByRosterPosition ==
    RoundAtLead =>
      /\ \A j \in Members :
            /\ Included(j) <=> Strip(member_outputs[j]) # <<>>
            /\ Included(j) =>
                  IsInfix(<<"[member ", ToString(j), "]\n">> \o member_outputs[j], lead_user)
      /\ \A j \in 0..(MaxMembers + 2) : Included(j) => j \in Members
      /\ \A i, j \in Members :
            (Included(i) /\ Included(j) /\ i < j) => TagAt(i) < TagAt(j)

\* the first member gave nothing usable and two later ones did: the lead
\* input tags them 2 and 3
C33_Witness ==
    /\ RoundAtLead
    /\ Len(member_specs) >= 3
    /\ Strip(member_outputs[1]) = <<>>
    /\ Included(2)
    /\ Included(3)
    /\ ~Included(1)

----------------------------------------------------------------------------
\* Properties of the pooled and the sequential round side by side (SpecBoth).

\* the team-member-advice block of a lead input: what stands between the
\* context and the closing instruction
AdviceBlock(user) ==
    IF IsInfix(<<"Team member advice:\n">>, user)
    THEN LET k == CHOOSE i \in 1..Len(user) : user[i] = "Team member advice:\n"
         IN SubSeq(user, k, Len(user) - 1)
    ELSE <<>>

\* C34: on the same roster and the same per-member outcomes the pooled and
\* the sequential round collect the same member outputs, entry by entry in
\* the same order, and hand the lead the same team-member-advice block.
C34_PooledEqualsSequential ==
    /\ \A j \in 1..Len(seq_outputs) :
          j <= Len(member_outputs) => seq_outputs[j] = member_outputs[j]
    /\ (RoundAtLead /\ seq_pc \in {"lead", "returned", "raised"}) =>
          /\ seq_outputs = member_outputs
          /\ AdviceBlock(seq_lead_user) = AdviceBlock(lead_user)

\* both rounds are at the lead after an out-of-order completion of the pooled
\* calls, one member having raised, one having returned white space and one
\* having given advice
C34_Witness ==
    /\ RoundAtLead
    /\ seq_pc \in {"lead", "returned", "raised"}
    /\ overtaken
    /\ AdviceBlock(lead_user) # <<>>
    /\ \E a, b \in Members :
         /\ RaisedMember(a)
         /\ futures[b].outcome = Returned(<<" ">>)

----------------------------------------------------------------------------
\* Properties of the order of admission and input checks (SpecStore).

\* the limiter's record of the latest press
LatestCall == rl_calls[Len(rl_calls)]

\* the latest press came within one window of the press made MaxCalls
\* presses before it
WithinOneWindow ==
    /\ Len(rl_calls) > MaxCalls
    /\ LatestCall.at - rl_calls[Len(rl_calls) - MaxCalls].at < WindowS

\* C35: a press refused for a missing API key or a blank agenda was admitted
\* by the limiter first and has left its timestamp in the caller's window;
\* after max (3) such presses in a row, a press made within one window of
\* them is refused by the limiter, valid or not.
C35_AdmissionBeforeValidation ==
    last_press.seq > 0 =>
      /\ last_press.shown \in InputRefusals =>
            /\ LatestCall.ok
            /\ LatestCall.after = Append(LatestCall.pruned, LatestCall.at)
            /\ rl_store[StoreKey(LatestCall.id)] = LatestCall.after
      /\ (last_input.refused_before >= MaxCalls /\ WithinOneWindow) =>
            last_press.shown = "Rate limit reached"

\* three presses refused for their input, then a valid press within the
\* window: the limiter refuses it, and no round has ever been started
C35_Witness ==
    /\ last_press.seq = MaxCalls + 1
    /\ last_input.valid
    /\ last_input.refused_before = MaxCalls
    /\ WithinOneWindow
    /\ last_press.shown = "Rate limit reached"
    /\ assigned = <<>>

----------------------------------------------------------------------------
\* Properties of what pruning leaves alone (SpecStore).

\* a file pruning may delete: base name starting with web_, extension .md
\* or .json
Prunable(f) == Head(f.stem) = "web_" /\ f.ext \in {".md", ".json"}

PrefixedSessions(dir) == { f.stem : f \in { g \in dir : Prunable(g) } }

\* C36: whatever a press does, every file it deletes has a base name
\* starting with web_ and the extension .md or .json, every other file of
\* the directory stays as it was, and when the sessions with the prefix,
\* the one just saved included, number at most K = 5, nothing is deleted.
C36_PruneTouchesOnlyWebSessions ==
    [][ /\ \A f \in store \ store' : Prunable(f)
        /\ \A f \in store : ~Prunable(f) => f \in store'
        /\ Cardinality(PrefixedSessions(store \cup store')) <= MaxSessions
              => store \subseteq store' ]_vars

\* a press whose prune removed the oldest web session and left the files
\* kept beside it
C36_Witness ==
    /\ assigned # <<>>
    /\ assigned[Len(assigned)].dir = EarlierSessions \cup ManualFiles
    /\ ManualFiles \subseteq store
    /\ WebName(3) \notin PrefixedSessions(store)
    /\ Cardinality(PrefixedSessions(store)) = MaxSessions

----------------------------------------------------------------------------
\* Properties of the deque's capacity (SpecWindow).

\* C37: a caller's window never holds more than 100 timestamps; a call that
\* finds it full after the expired ones are dropped discards the oldest and
\* appends its own; and when the maximum passed is greater than 100 the
\* length never reaches it and no call is rejected.
C37_WindowCapacity ==
    /\ \A k \in RateKeys : Len(rl_store[k]) <= 100
    /\ last_admit.seq = 1 =>
          /\ Len(last_admit.before) <= 100
          /\ Len(last_admit.after) <= 100
          /\ Len(last_admit.pruned) < last_admit.max_calls
          /\ last_admit.ok
          /\ Len(last_admit.pruned) = 100 =>
                last_admit.after = Append(Tail(last_admit.pruned), last_admit.at)
          /\ Len(last_admit.pruned) < 100 =>
                last_admit.after = Append(last_admit.pruned, last_admit.at)

\* a call finds the window full of timestamps of two different seconds,
\* is admitted, and the oldest of them is gone
C37_Witness ==
    /\ last_admit.seq = 1
    /\ Len(last_admit.pruned) = 100
    /\ Head(last_admit.pruned) < last_admit.pruned[2]
    /\ last_admit.ok
    /\ Len(last_admit.after) = 100
    /\ Head(last_admit.after) = last_admit.pruned[2]
    /\ last_admit.after[100] = last_admit.at

====
